---- MODULE Spec2Model ----
(***************************************************************************)
(* Race-model violation engine of srt_analysis_deluxe_GUI.py               *)
(* (ReactionTimeAnalysisGUI): the ECDF construction, the five race-model   *)
(* predictors, calculate_race_violation in its pooled and per-participant  *)
(* modes, and get_participant_violation_value.                             *)
(*                                                                         *)
(* Numbers.  The program computes in IEEE doubles; the model computes the  *)
(* same expressions exactly, over rationals <<numerator, denominator>>     *)
(* kept in lowest terms with a positive denominator.  NaN (the mean of an  *)
(* empty slice) and None are distinct values of their own.                 *)
(*                                                                         *)
(* Arrays are sequences; the numpy index i is the sequence index i + 1.    *)
(***************************************************************************)
EXTENDS Integers, Sequences, FiniteSets, TLC

(***************************************************************************)
(* Bounds of the model.                                                    *)
(*   GridLen         points of the RT grid.  The program's grids have 500  *)
(*                   points (np.linspace(.., .., 500)); the model keeps    *)
(*                   the construction and shortens the grid.               *)
(*   MaxRT           reaction times are drawn from 1..MaxRT.               *)
(*   MaxTrials       most trials one participant has in one modality.      *)
(*   NumParticipants participants a trial table may hold.                  *)
(*   ProbDen         the race-model predictors are applied to probability  *)
(*                   arrays with entries k/ProbDen.                        *)
(***************************************************************************)
GridLen == 5
MaxRT == 2
MaxTrials == 2
NumParticipants == 2
ProbDen == 3

\* the six entries of the model selector (initUI) and the ranges of the
\* model-parameter sliders (create_model_parameter_widgets)
StandardName == "Standard Race Model"
MillerName == "Miller Standard Race Model"
CoactivationName == "Coactivation Model"
ParallelInteractiveName == "Parallel Interactive Race Model"
MREName == "Multisensory Response Enhancement Model"
PermutationName == "Permutation Test"
ModelNames ==
    {StandardName, MillerName, CoactivationName, ParallelInteractiveName,
     MREName, PermutationName}

CoactivationMeanMin == 0
CoactivationMeanMax == 1000
CoactivationStdMin == 1
CoactivationStdMax == 500
PercentMin == 0
PercentMax == 100

\* Python's None, and the NaN that np.mean gives for an empty slice (0/0)
None == [none |-> TRUE]
NaN == <<0, 0>>

VARIABLES
    model_selector,             \* model_selector.currentText()
    coactivation_mean_slider,   \* slider values (integers)
    coactivation_std_slider,
    pir_interaction_slider,
    mre_alpha_slider,
    mre_beta_slider,
    mre_lambda_slider,
    per_participant_checkbox,   \* 'Calc Per-Person'
    data,                       \* the loaded trial table: a sequence of rows
    call,                       \* the engine operation that has just returned, with its arguments
    ret,                        \* what it returned
    frame,                      \* calculate_race_violation's local variables at its return
    datasets,                   \* datasets[name]: its "data" and "original_data" tables
    excluded_participants,      \* excluded_participants[name]
    excluded_trials,            \* excluded_trials[name]: index labels
    participant_selector,       \* AllParticipants or a participant number
    violation_range_slider,     \* <<first_position, second_position>>
    percentile_range_slider,    \* <<first_position, second_position>>
    exclude_nonviolators_checkbox,  \* 'Excl Non-Violators'
    current_figure_type,
    undo_exclusions_button,     \* isEnabled()
    use_permutation_test_checkbox,  \* 'Use permutation test for statistical validation'
    range_slider                \* a RangeSlider: its attributes and the values of its two sliders

vars ==
    <<model_selector, coactivation_mean_slider, coactivation_std_slider,
      pir_interaction_slider, mre_alpha_slider, mre_beta_slider, mre_lambda_slider,
      per_participant_checkbox, data, call, ret, frame,
      datasets, excluded_participants, excluded_trials, participant_selector,
      violation_range_slider, percentile_range_slider,
      exclude_nonviolators_checkbox, current_figure_type, undo_exclusions_button,
      use_permutation_test_checkbox, range_slider>>

widgets == <<use_permutation_test_checkbox, range_slider>>

(***************************************************************************)
(* Exact arithmetic.                                                       *)
(***************************************************************************)
Abs(n) == IF n < 0 THEN -n ELSE n

RECURSIVE GCD(_, _)
GCD(a, b) == IF b = 0 THEN a ELSE GCD(b, a % b)

LCM(a, b) == (a \div GCD(a, b)) * b

\* the rational n/d (d > 0) in lowest terms
Rat(n, d) == LET g == GCD(Abs(n), d) IN <<n \div g, d \div g>>

Zero == Rat(0, 1)
One == Rat(1, 1)

RAdd(p, q) ==
    LET l == LCM(p[2], q[2])
    IN  Rat(p[1] * (l \div p[2]) + q[1] * (l \div q[2]), l)

RSub(p, q) ==
    LET l == LCM(p[2], q[2])
    IN  Rat(p[1] * (l \div p[2]) - q[1] * (l \div q[2]), l)

RMul(p, q) ==
    LET g1 == GCD(Abs(p[1]), q[2])
        g2 == GCD(Abs(q[1]), p[2])
    IN  Rat((p[1] \div g1) * (q[1] \div g2), (p[2] \div g2) * (q[2] \div g1))

\* p / k for an integer k > 0
RDivInt(p, k) ==
    LET g == GCD(Abs(p[1]), k)
    IN  Rat(p[1] \div g, p[2] * (k \div g))

RLeq(p, q) ==
    LET l == LCM(p[2], q[2])
    IN  p[1] * (l \div p[2]) <= q[1] * (l \div q[2])

RLess(p, q) == ~RLeq(q, p)

RMax(p, q) == IF RLeq(p, q) THEN q ELSE p

RMin(p, q) == IF RLeq(p, q) THEN p ELSE q

\* np.clip(x, 0, 1) on one element
Clip01(p) == RMin(RMax(p, Zero), One)

(***************************************************************************)
(* numpy helpers on arrays.                                                *)
(***************************************************************************)
RECURSIVE SeqSum(_)
SeqSum(s) == IF s = <<>> THEN Zero ELSE RAdd(Head(s), SeqSum(Tail(s)))

RECURSIVE Insert(_, _)
Insert(x, s) ==
    IF s = <<>> THEN <<x>>
    ELSE IF x <= Head(s) THEN <<x>> \o s
    ELSE <<Head(s)>> \o Insert(x, Tail(s))

\* np.sort of a sequence of integers
RECURSIVE Sort(_)
Sort(s) == IF s = <<>> THEN <<>> ELSE Insert(Head(s), Sort(Tail(s)))

RECURSIVE SeqMin(_)
SeqMin(s) ==
    IF Len(s) = 1 THEN s[1]
    ELSE LET m == SeqMin(Tail(s)) IN IF s[1] <= m THEN s[1] ELSE m

RECURSIVE SeqMax(_)
SeqMax(s) ==
    IF Len(s) = 1 THEN s[1]
    ELSE LET m == SeqMax(Tail(s)) IN IF s[1] >= m THEN s[1] ELSE m

\* np.linspace(start, stop, num) for integers start <= stop and num >= 2
Linspace(start, stop, num) ==
    [i \in 1..num |-> Rat(start * (num - 1) + (i - 1) * (stop - start), num - 1)]

\* variant: the ranks start one too high, np.arange(2, n + 2) / n
RanksMut(n) == [i \in 1..n |-> Rat(i + 1, n)]

\* np.arange(1, n + 1) / n
Ranks(n) == [i \in 1..n |-> Rat(i, n)]

(***************************************************************************)
(* np.interp(x, xp, fp) at one point x, for xp sorted ascending: fp[0]     *)
(* left of xp[0], fp[-1] right of xp[-1] and at it, else the line through  *)
(* the points j, j+1 where j is the last index with xp[j] <= x (so         *)
(* xp[j] < xp[j+1] even when xp holds ties).                               *)
(***************************************************************************)
\* the line through (xp[j], fp[j]) and (xp[j+1], fp[j+1]) at x
InterpSegment(x, xp, fp, j) ==
    RAdd(fp[j],
         RDivInt(RMul(RSub(x, Rat(xp[j], 1)), RSub(fp[j + 1], fp[j])),
                 xp[j + 1] - xp[j]))

Interp(x, xp, fp) ==
    IF RLess(x, Rat(xp[1], 1)) THEN fp[1]
    ELSE IF RLeq(Rat(xp[Len(xp)], 1), x) THEN fp[Len(xp)]
    ELSE InterpSegment(x, xp, fp,
                       CHOOSE k \in 1..(Len(xp) - 1) :
                           /\ RLeq(Rat(xp[k], 1), x)
                           /\ RLess(x, Rat(xp[k + 1], 1)))

\* the ECDF of the sample rt on the grid common_rts:
\* np.interp(common_rts, np.sort(rt), np.arange(1, len(rt) + 1) / len(rt))
ECDF(common_rts, rt) ==
    LET xp == Sort(rt)
        fp == Ranks(Len(rt))
    IN  [i \in 1..Len(common_rts) |-> Interp(common_rts[i], xp, fp)]

(***************************************************************************)
(* The race-model predictors of _calculate_race_model, before clipping.    *)
(***************************************************************************)
\* 1 - (1 - ecdf_a) * (1 - ecdf_v)
StandardRaceModel(ecdf_a, ecdf_v) ==
    [i \in 1..Len(ecdf_a) |->
        RSub(One, RMul(RSub(One, ecdf_a[i]), RSub(One, ecdf_v[i])))]

\* variant: the two ECDFs multiplied where Miller's bound adds them
MillerRaceModelMut(ecdf_a, ecdf_v) ==
    [i \in 1..Len(ecdf_a) |-> RMin(RMul(ecdf_a[i], ecdf_v[i]), One)]

\* np.minimum(ecdf_a + ecdf_v, 1.0)
MillerRaceModel(ecdf_a, ecdf_v) ==
    [i \in 1..Len(ecdf_a) |-> RMin(RAdd(ecdf_a[i], ecdf_v[i]), One)]

(***************************************************************************)
(* stats.norm.cdf(x, loc, scale), scale > 0.  The Gaussian CDF is not      *)
(* rational; the model takes its value at the integer z-score below        *)
(* z = (x - loc) / scale, rounded to two decimals: 0 below z = -3, then    *)
(* 0.02, 0.16, 0.50, 0.84, 0.98 from z = -2, -1, 0, 1, 2 on, and 1 from    *)
(* z = 3 on.  Like the original it is non-decreasing, within [0,1] and     *)
(* 1/2 at x = loc.                                                         *)
(***************************************************************************)
NormCdf(x, loc, scale) ==
    LET d == RSub(x, Rat(loc, 1))
        AtLeast(k) == RLeq(Rat(k * scale, 1), d)
    IN  IF AtLeast(3) THEN One
        ELSE IF AtLeast(2) THEN Rat(49, 50)
        ELSE IF AtLeast(1) THEN Rat(21, 25)
        ELSE IF AtLeast(0) THEN Rat(1, 2)
        ELSE IF AtLeast(-1) THEN Rat(4, 25)
        ELSE IF AtLeast(-2) THEN Rat(1, 50)
        ELSE Zero

CoactivationModel(common_rts, mean_c, std_c) ==
    [i \in 1..Len(common_rts) |-> NormCdf(common_rts[i], mean_c, std_c)]

\* base_race + gamma * np.minimum(ecdf_a, ecdf_v), gamma = slider / 100
ParallelInteractiveModel(ecdf_a, ecdf_v, slider) ==
    LET gamma == Rat(slider, 100)
        base_race == StandardRaceModel(ecdf_a, ecdf_v)
    IN  [i \in 1..Len(ecdf_a) |->
            RAdd(base_race[i], RMul(gamma, RMin(ecdf_a[i], ecdf_v[i])))]

\* alpha * ecdf_a + beta * ecdf_v + lambda_param * (ecdf_a * ecdf_v)
MREModel(ecdf_a, ecdf_v, alpha_slider, beta_slider, lambda_slider) ==
    LET alpha == Rat(alpha_slider, 100)
        beta == Rat(beta_slider, 100)
        lambda_param == Rat(lambda_slider, 100)
    IN  [i \in 1..Len(ecdf_a) |->
            RAdd(RAdd(RMul(alpha, ecdf_a[i]), RMul(beta, ecdf_v[i])),
                 RMul(lambda_param, RMul(ecdf_a[i], ecdf_v[i])))]

\* variant: the prediction returned without clipping
ClipMut(race_model) == race_model

\* np.clip(race_model, 0, 1)
Clip(race_model) == [i \in 1..Len(race_model) |-> Clip01(race_model[i])]

\* variant: an unknown name falls through to the standard model
SelectedRaceModelMut(selected_model, ecdf_a, ecdf_v, common_rts) ==
    IF selected_model = MillerName THEN MillerRaceModel(ecdf_a, ecdf_v)
    ELSE IF selected_model = CoactivationName
        THEN CoactivationModel(common_rts, coactivation_mean_slider,
                               coactivation_std_slider)
    ELSE IF selected_model = ParallelInteractiveName
        THEN ParallelInteractiveModel(ecdf_a, ecdf_v, pir_interaction_slider)
    ELSE IF selected_model = MREName
        THEN MREModel(ecdf_a, ecdf_v, mre_alpha_slider, mre_beta_slider,
                      mre_lambda_slider)
    ELSE StandardRaceModel(ecdf_a, ecdf_v)

\* the unclipped prediction of the selected model; None for any other name
SelectedRaceModel(selected_model, ecdf_a, ecdf_v, common_rts) ==
    IF selected_model = StandardName THEN StandardRaceModel(ecdf_a, ecdf_v)
    ELSE IF selected_model = MillerName THEN MillerRaceModel(ecdf_a, ecdf_v)
    ELSE IF selected_model = CoactivationName
        THEN CoactivationModel(common_rts, coactivation_mean_slider,
                               coactivation_std_slider)
    ELSE IF selected_model = ParallelInteractiveName
        THEN ParallelInteractiveModel(ecdf_a, ecdf_v, pir_interaction_slider)
    ELSE IF selected_model = MREName
        THEN MREModel(ecdf_a, ecdf_v, mre_alpha_slider, mre_beta_slider,
                      mre_lambda_slider)
    ELSE None

\* "return None  # Unknown model", else the clipped prediction
ClipKnown(race_model) ==
    IF race_model = None THEN None ELSE Clip(race_model)

_calculate_race_model(ecdf_a, ecdf_v, common_rts) ==
    ClipKnown(SelectedRaceModel(model_selector, ecdf_a, ecdf_v, common_rts))

(***************************************************************************)
(* Trial tables (pandas DataFrames): sequences of rows                     *)
(* [participant_number, modality, reaction_time]; modality 1 = Audio,      *)
(* 2 = Visual, 3 = Audiovisual.                                            *)
(***************************************************************************)
\* participant_data[participant_data['participant_number'] == participant]
RowsOfParticipant(participant_data, participant) ==
    SelectSeq(participant_data, LAMBDA r : r.participant_number = participant)

\* participant_data[participant_data['modality'] == mod]['reaction_time']
ReactionTimes(participant_data, mod) ==
    LET rows == SelectSeq(participant_data, LAMBDA r : r.modality = mod)
    IN  [i \in 1..Len(rows) |-> rows[i].reaction_time]

\* participant_data['reaction_time']
AllReactionTimes(participant_data) ==
    [i \in 1..Len(participant_data) |-> participant_data[i].reaction_time]

\* participant_data['participant_number'].unique(): in order of first appearance
RECURSIVE Unique(_)
Unique(participant_data) ==
    IF participant_data = <<>> THEN <<>>
    ELSE LET init == SubSeq(participant_data, 1, Len(participant_data) - 1)
             last == participant_data[Len(participant_data)].participant_number
             seen == Unique(init)
         IN  IF \E i \in 1..Len(seen) : seen[i] = last THEN seen
             ELSE Append(seen, last)

\* the participants of a table, as a set
Participants(participant_data) ==
    {participant_data[i].participant_number : i \in 1..Len(participant_data)}

\* variant: the signed difference, not clipped at 0
PositivePartMut(ecdf_av, race_model) ==
    [i \in 1..Len(ecdf_av) |-> RSub(ecdf_av[i], race_model[i])]

\* variant: np.abs where np.maximum(.., 0) is meant
PositivePartAbsMut(ecdf_av, race_model) ==
    [i \in 1..Len(ecdf_av) |->
        RMax(RSub(ecdf_av[i], race_model[i]), RSub(race_model[i], ecdf_av[i]))]

\* np.maximum(ecdf_av - race_model, 0)
PositivePart(ecdf_av, race_model) ==
    [i \in 1..Len(ecdf_av) |-> RMax(RSub(ecdf_av[i], race_model[i]), Zero)]

\* np.mean(arrays, axis=0) of a non-empty list of arrays of equal length
MeanAxis0(arrays) ==
    [i \in 1..Len(arrays[1]) |->
        RDivInt(SeqSum([k \in 1..Len(arrays) |-> arrays[k][i]]), Len(arrays))]

\* np.mean of a one-dimensional array: NaN when it is empty
Mean(array) ==
    IF array = <<>> THEN NaN ELSE RDivInt(SeqSum(array), Len(array))

\* array[lower_idx:upper_idx] for 0 <= lower_idx, upper_idx <= len(array)
Slice(array, lower_idx, upper_idx) == SubSeq(array, lower_idx + 1, upper_idx)

\* variant: the index taken on length - 1
PercentileIndexMut(length, percentile) == ((length - 1) * percentile) \div 100

\* int(length * percentile / 100) for a percentile >= 0
PercentileIndex(length, percentile) == (length * percentile) \div 100

(***************************************************************************)
(* calculate_race_violation: the curves of one sample triple on the grid   *)
(* (the three ECDFs, the race model and the positive part of               *)
(* ecdf_av - race_model), None when the model is unknown.  Both branches   *)
(* compute them by the same three statements.                              *)
(***************************************************************************)
Curves(ecdf_a, ecdf_v, ecdf_av, race_model) ==
    IF race_model = None THEN None
    ELSE [ecdf_a |-> ecdf_a, ecdf_v |-> ecdf_v, ecdf_av |-> ecdf_av,
          race_model |-> race_model,
          violations |-> PositivePart(ecdf_av, race_model)]

ModelCurves(common_rts, ecdf_a, ecdf_v, ecdf_av) ==
    Curves(ecdf_a, ecdf_v, ecdf_av,
           _calculate_race_model(ecdf_a, ecdf_v, common_rts))

GridCurves(common_rts, rt_a, rt_v, rt_av) ==
    ModelCurves(common_rts, ECDF(common_rts, rt_a), ECDF(common_rts, rt_v),
                ECDF(common_rts, rt_av))

\* the body of the loop over participants: None when the participant is
\* skipped (a modality with fewer than 2 trials) or the model is unknown
ParticipantCurves(p_data, common_rts) ==
    IF \/ Len(ReactionTimes(p_data, 1)) < 2
       \/ Len(ReactionTimes(p_data, 2)) < 2
       \/ Len(ReactionTimes(p_data, 3)) < 2
    THEN None
    ELSE GridCurves(common_rts, ReactionTimes(p_data, 1),
                    ReactionTimes(p_data, 2), ReactionTimes(p_data, 3))

\* the participants whose curves were appended, each with its rows
ValidParticipants(participant_data, participants, common_rts) ==
    SelectSeq([k \in 1..Len(participants) |->
                  [p_data |-> RowsOfParticipant(participant_data, participants[k]),
                   curves |-> ParticipantCurves(
                                  RowsOfParticipant(participant_data, participants[k]),
                                  common_rts)]],
              LAMBDA c : c.curves # None)

\* variant: all-zero curves are substituted where no participant is valid
NoValidParticipantsMut(common_rts) ==
    [common_rts |-> common_rts,
     ecdf_a |-> [i \in 1..Len(common_rts) |-> Zero],
     ecdf_v |-> [i \in 1..Len(common_rts) |-> Zero],
     ecdf_av |-> [i \in 1..Len(common_rts) |-> Zero],
     race_model |-> [i \in 1..Len(common_rts) |-> Zero],
     violations |-> [i \in 1..Len(common_rts) |-> Zero],
     samples |-> <<>>]

\* "If no valid participants, return None"
NoValidParticipants(common_rts) == None

\* "Average across participants"
AverageCurves(common_rts, valid) ==
    IF Len(valid) = 0 THEN NoValidParticipants(common_rts)
    ELSE [common_rts |-> common_rts,
          ecdf_a |-> MeanAxis0([k \in 1..Len(valid) |-> valid[k].curves.ecdf_a]),
          ecdf_v |-> MeanAxis0([k \in 1..Len(valid) |-> valid[k].curves.ecdf_v]),
          ecdf_av |-> MeanAxis0([k \in 1..Len(valid) |-> valid[k].curves.ecdf_av]),
          race_model |->
              MeanAxis0([k \in 1..Len(valid) |-> valid[k].curves.race_model]),
          violations |->
              MeanAxis0([k \in 1..Len(valid) |-> valid[k].curves.violations]),
          samples |-> [k \in 1..Len(valid) |-> valid[k].p_data]]

PerParticipantOnGrid(participant_data, common_rts) ==
    AverageCurves(common_rts,
                  ValidParticipants(participant_data, Unique(participant_data),
                                    common_rts))

\* the local variables after the per-participant branch, or None where it returns None
PerParticipantBranch(participant_data) ==
    IF AllReactionTimes(participant_data) = <<>> THEN None
    ELSE PerParticipantOnGrid(
             participant_data,
             Linspace(SeqMin(AllReactionTimes(participant_data)),
                      SeqMax(AllReactionTimes(participant_data)), GridLen))

\* the pooled curves with their grid
PooledCurves(participant_data, common_rts, curves) ==
    IF curves = None THEN None
    ELSE [common_rts |-> common_rts,
          ecdf_a |-> curves.ecdf_a, ecdf_v |-> curves.ecdf_v,
          ecdf_av |-> curves.ecdf_av, race_model |-> curves.race_model,
          violations |-> curves.violations,
          samples |-> <<participant_data>>]

PooledOnGrid(participant_data, common_rts) ==
    PooledCurves(participant_data, common_rts,
                 GridCurves(common_rts, ReactionTimes(participant_data, 1),
                            ReactionTimes(participant_data, 2),
                            ReactionTimes(participant_data, 3)))

\* "Additional check: ensure min and max are different"
PooledOnRange(participant_data, min_val, max_val) ==
    IF min_val = max_val THEN None
    ELSE PooledOnGrid(participant_data, Linspace(min_val, max_val, GridLen))

\* variant: the grid starts at the fastest unimodal trial
MinOfSamplesMut(rt_a, rt_v, rt_av) == SeqMin(<<SeqMin(rt_a), SeqMin(rt_v)>>)

\* min(rt_a.min(), rt_v.min(), rt_av.min()) and likewise the max
MinOfSamples(rt_a, rt_v, rt_av) == SeqMin(<<SeqMin(rt_a), SeqMin(rt_v), SeqMin(rt_av)>>)

MaxOfSamples(rt_a, rt_v, rt_av) == SeqMax(<<SeqMax(rt_a), SeqMax(rt_v), SeqMax(rt_av)>>)

\* variant: the per_participant flag is ignored and participants are averaged
PooledBranchMut(participant_data) == PerParticipantBranch(participant_data)

\* the local variables after the pooled branch, or None where it returns None
PooledBranch(participant_data) ==
    IF \/ ReactionTimes(participant_data, 1) = <<>>
       \/ ReactionTimes(participant_data, 2) = <<>>
       \/ ReactionTimes(participant_data, 3) = <<>>
    THEN None
    ELSE PooledOnRange(participant_data,
                       MinOfSamples(ReactionTimes(participant_data, 1),
                                    ReactionTimes(participant_data, 2),
                                    ReactionTimes(participant_data, 3)),
                       MaxOfSamples(ReactionTimes(participant_data, 1),
                                    ReactionTimes(participant_data, 2),
                                    ReactionTimes(participant_data, 3)))

(***************************************************************************)
(* calculate_race_violation(participant_data, percentile_range,            *)
(* per_participant): its local variables where it returns a tuple (the     *)
(* branch's, the slice bounds and the mean), None where it returns None.   *)
(* samples lists the tables an ECDF triple was built from (one per         *)
(* contributing participant, or the pooled table).                         *)
(***************************************************************************)
Branch(participant_data, per_participant) ==
    IF per_participant THEN PerParticipantBranch(participant_data)
    ELSE PooledBranch(participant_data)

\* the percentile range filter "for both methods" and the returned mean
Summarise(branch, percentile_range) ==
    IF branch = None THEN None
    ELSE LET lower_idx == PercentileIndex(Len(branch.violations), percentile_range[1])
             upper_idx == PercentileIndex(Len(branch.violations), percentile_range[2])
         IN  [common_rts |-> branch.common_rts,
              ecdf_a |-> branch.ecdf_a, ecdf_v |-> branch.ecdf_v,
              ecdf_av |-> branch.ecdf_av, race_model |-> branch.race_model,
              violations |-> branch.violations, samples |-> branch.samples,
              lower_idx |-> lower_idx, upper_idx |-> upper_idx,
              mean_violation |->
                  Mean(Slice(branch.violations, lower_idx, upper_idx))]

ViolationLocals(participant_data, percentile_range, per_participant) ==
    Summarise(Branch(participant_data, per_participant), percentile_range)

\* the returned tuple (mean_violation, common_rts, ecdf_a, ecdf_v, ecdf_av, race_model)
ReturnedTuple(locals) ==
    IF locals = None THEN None
    ELSE <<locals.mean_violation, locals.common_rts, locals.ecdf_a, locals.ecdf_v,
           locals.ecdf_av, locals.race_model>>

calculate_race_violation(participant_data, percentile_range, per_participant) ==
    ReturnedTuple(ViolationLocals(participant_data, percentile_range, per_participant))

(***************************************************************************)
(* get_participant_violation_value(participant_data, percentile_range):    *)
(* None when a modality is absent or the calculation gave None, else the   *)
(* sum of the positive part of ecdf_av - race_model over the slice.        *)
(* ViolationValue is the function from the call of                         *)
(* calculate_race_violation on; result is what that call returned.         *)
(***************************************************************************)
CumulativeViolation(result, percentile_range) ==
    LET common_rts == result[2]
        ecdf_av == result[5]
        race_model == result[6]
        lower_idx == PercentileIndex(Len(common_rts), percentile_range[1])
        upper_idx == PercentileIndex(Len(common_rts), percentile_range[2])
    IN  SeqSum(PositivePart(Slice(ecdf_av, lower_idx, upper_idx),
                            Slice(race_model, lower_idx, upper_idx)))

ViolationValue(participant_data, result, percentile_range) ==
    IF \E mod \in {1, 2, 3} : ReactionTimes(participant_data, mod) = <<>> THEN None
    ELSE IF result = None THEN None
    ELSE CumulativeViolation(result, percentile_range)

get_participant_violation_value(participant_data, percentile_range) ==
    ViolationValue(participant_data,
                   calculate_race_violation(participant_data, percentile_range,
                                            per_participant_checkbox),
                   percentile_range)

(***************************************************************************)
(* Inputs.  A participant's trials in one modality are a non-decreasing    *)
(* sequence of at most MaxTrials reaction times from 1..MaxRT (the engine  *)
(* sorts every sample, so the order of a modality's trials is immaterial). *)
(* A profile gives the three modalities of one participant.                *)
(*                                                                         *)
(* A table holds either one participant, with any profile in which at      *)
(* least two modalities have the same trials, or up to NumParticipants     *)
(* participants with group profiles: AV faster than A and V, AV slower,    *)
(* all three alike over the whole range, all trials at the fastest time,   *)
(* and a single slowest trial per modality (too few for an ECDF).          *)
(***************************************************************************)
RTs == 1..MaxRT

Cells ==
    {s \in UNION {[1..n -> RTs] : n \in 0..MaxTrials} :
        \A i \in 1..(Len(s) - 1) : s[i] <= s[i + 1]}

SingleProfiles ==
    {pr \in [1..3 -> Cells] : pr[1] = pr[2] \/ pr[1] = pr[3] \/ pr[2] = pr[3]}

Fast == <<1, 1>>
Slow == <<MaxRT, MaxRT>>
Wide == <<1, MaxRT>>

GroupProfiles ==
    {<<Slow, Slow, Fast>>, <<Fast, Fast, Slow>>, <<Wide, Wide, Wide>>,
     <<Fast, Fast, Fast>>, <<<<MaxRT>>, <<MaxRT>>, <<MaxRT>>>>}

RowsOfProfile(participant, profile) ==
    LET rows(mod) ==
            [i \in 1..Len(profile[mod]) |->
                [participant_number |-> participant, modality |-> mod,
                 reaction_time |-> profile[mod][i]]]
    IN  rows(1) \o rows(2) \o rows(3)

RECURSIVE RowsOfProfiles(_, _)
RowsOfProfiles(profiles, participant) ==
    IF participant > Len(profiles) THEN <<>>
    ELSE RowsOfProfile(participant, profiles[participant])
         \o RowsOfProfiles(profiles, participant + 1)

Tables ==
    {RowsOfProfile(1, pr) : pr \in SingleProfiles}
    \cup {RowsOfProfiles(ps, 1) :
            ps \in UNION {[1..n -> GroupProfiles] : n \in 2..NumParticipants}}

PercentileValues == {0, 50, 100}

PercentileRanges ==
    {pr \in PercentileValues \X PercentileValues : pr[1] <= pr[2]}

(***************************************************************************)
(* The state machine.  The GUI is single-threaded: a handler runs to       *)
(* completion.  call = NoCall between handlers; an engine operation sets   *)
(* call, ret and frame at its return, and Return hands control back.       *)
(***************************************************************************)
NoCall == [op |-> "none"]

SliderDefault(min_val, max_val) == (min_val + max_val) \div 2

SlidersAtDefault ==
    /\ coactivation_mean_slider = SliderDefault(CoactivationMeanMin, CoactivationMeanMax)
    /\ coactivation_std_slider = SliderDefault(CoactivationStdMin, CoactivationStdMax)
    /\ pir_interaction_slider = SliderDefault(PercentMin, PercentMax)
    /\ mre_alpha_slider = SliderDefault(PercentMin, PercentMax)
    /\ mre_beta_slider = SliderDefault(PercentMin, PercentMax)
    /\ mre_lambda_slider = SliderDefault(PercentMin, PercentMax)

\* RangeSlider.__init__
RangeSliderInit ==
    [first_position |-> Zero, second_position |-> Rat(100, 1),
     min_value |-> Zero, max_value |-> Rat(100, 1),
     first_slider |-> 0, second_slider |-> 100]

WidgetDefaults ==
    /\ use_permutation_test_checkbox = FALSE
    /\ range_slider = RangeSliderInit

\* the exclusion layer's state
gui ==
    <<datasets, excluded_participants, excluded_trials, participant_selector,
      violation_range_slider, percentile_range_slider,
      exclude_nonviolators_checkbox, current_figure_type, undo_exclusions_button>>

AllParticipants == 0

NoFigure == "None"

\* the window at construction, before any dataset is loaded
NoDatasets ==
    /\ datasets = <<>>
    /\ excluded_participants = <<>>
    /\ excluded_trials = <<>>
    /\ participant_selector = [items |-> {}, currentText |-> AllParticipants]
    /\ violation_range_slider = <<Zero, Rat(100, 1)>>
    /\ percentile_range_slider = <<0, 100>>
    /\ exclude_nonviolators_checkbox = FALSE
    /\ current_figure_type = NoFigure
    /\ undo_exclusions_button = FALSE
    /\ WidgetDefaults

Init ==
    /\ model_selector \in ModelNames
    /\ SlidersAtDefault
    /\ per_participant_checkbox = TRUE
    /\ data \in Tables
    /\ call = NoCall
    /\ ret = None
    /\ frame = None
    /\ NoDatasets

sliders ==
    <<coactivation_mean_slider, coactivation_std_slider, pir_interaction_slider,
      mre_alpha_slider, mre_beta_slider, mre_lambda_slider>>

\* the user picks an entry of the model selector
SelectModel(name) ==
    /\ call = NoCall
    /\ model_selector' = name
    /\ UNCHANGED <<widgets, sliders, per_participant_checkbox, data, gui, call, ret, frame>>

\* the user toggles 'Calc Per-Person'
TogglePerParticipant ==
    /\ call = NoCall
    /\ per_participant_checkbox' = ~per_participant_checkbox
    /\ UNCHANGED <<widgets, model_selector, sliders, data, gui, call, ret, frame>>

\* the branch is computed once and summarised for each percentile range
CallCalculateRaceViolation(per_participant) ==
    /\ call = NoCall
    /\ \E branch \in {Branch(data, per_participant)} :
           \E percentile_range \in PercentileRanges :
              /\ call' = [op |-> "calculate_race_violation",
                          participant_data |-> data,
                          percentile_range |-> percentile_range,
                          per_participant |-> per_participant]
              /\ frame' = Summarise(branch, percentile_range)
              /\ ret' = ReturnedTuple(frame')
    /\ UNCHANGED <<widgets, model_selector, sliders, per_participant_checkbox, data, gui>>

\* called, as by its callers, on the rows of one participant of the table
CallGetParticipantViolationValue(participant) ==
    /\ call = NoCall
    /\ participant \in Participants(data)
    /\ \E sub \in {RowsOfParticipant(data, participant)} :
         \E branch \in {Branch(sub, per_participant_checkbox)} :
           \E percentile_range \in PercentileRanges :
              /\ call' = [op |-> "get_participant_violation_value",
                          participant_data |-> sub,
                          percentile_range |-> percentile_range]
              /\ ret' = ViolationValue(sub,
                                       ReturnedTuple(Summarise(branch, percentile_range)),
                                       percentile_range)
    /\ frame' = None
    /\ UNCHANGED <<widgets, model_selector, sliders, per_participant_checkbox, data, gui>>

Return ==
    /\ call # NoCall
    /\ call' = NoCall
    /\ ret' = None
    /\ frame' = None
    /\ UNCHANGED <<widgets, model_selector, sliders, per_participant_checkbox, data, gui>>

Next ==
    \/ \E name \in ModelNames : SelectModel(name)
    \/ TogglePerParticipant
    \/ \E pp \in BOOLEAN : CallCalculateRaceViolation(pp)
    \/ \E p \in 1..NumParticipants : CallGetParticipantViolationValue(p)
    \/ Return

Spec == Init /\ [][Next]_vars

(***************************************************************************)
(* calculate_race_violation on its own, in both modes and in pooled mode   *)
(* only, on the same tables under every selector entry.                    *)
(***************************************************************************)
NextViolation ==
    \/ \E name \in ModelNames : SelectModel(name)
    \/ \E pp \in BOOLEAN : CallCalculateRaceViolation(pp)
    \/ Return

SpecViolation == Init /\ [][NextViolation]_vars

NextPooled ==
    \/ \E name \in ModelNames : SelectModel(name)
    \/ CallCalculateRaceViolation(FALSE)
    \/ Return

SpecPooled == Init /\ [][NextPooled]_vars

(***************************************************************************)
(* _calculate_race_model on its own: SpecModel applies it, for every       *)
(* selector entry and for the selected model's sliders at the ends and     *)
(* the middle of their ranges, to pairs of probability arrays with         *)
(* entries k/ProbDen on two-point grids within 1..MaxRT.                   *)
(***************************************************************************)
Probabilities == {Rat(k, ProbDen) : k \in 0..ProbDen}

\* an ECDF on a two-point grid: non-decreasing along the grid
ProbabilityArrays ==
    {pq \in Probabilities \X Probabilities : RLeq(pq[1], pq[2])}

TwoPointGrids ==
    UNION {{Linspace(lo, hi, 2) : hi \in lo..MaxRT} : lo \in RTs}

SliderValues(min_val, max_val) == {min_val, SliderDefault(min_val, max_val), max_val}

\* the sliders of the selected model take any of their values, the others their defaults
InitModel ==
    /\ model_selector \in ModelNames
    /\ coactivation_mean_slider \in
           IF model_selector = CoactivationName
           THEN SliderValues(CoactivationMeanMin, CoactivationMeanMax)
           ELSE {SliderDefault(CoactivationMeanMin, CoactivationMeanMax)}
    /\ coactivation_std_slider \in
           IF model_selector = CoactivationName
           THEN SliderValues(CoactivationStdMin, CoactivationStdMax)
           ELSE {SliderDefault(CoactivationStdMin, CoactivationStdMax)}
    /\ pir_interaction_slider \in
           IF model_selector = ParallelInteractiveName
           THEN SliderValues(PercentMin, PercentMax)
           ELSE {SliderDefault(PercentMin, PercentMax)}
    /\ mre_alpha_slider \in
           IF model_selector = MREName THEN SliderValues(PercentMin, PercentMax)
           ELSE {SliderDefault(PercentMin, PercentMax)}
    /\ mre_beta_slider \in
           IF model_selector = MREName THEN SliderValues(PercentMin, PercentMax)
           ELSE {SliderDefault(PercentMin, PercentMax)}
    /\ mre_lambda_slider \in
           IF model_selector = MREName THEN SliderValues(PercentMin, PercentMax)
           ELSE {SliderDefault(PercentMin, PercentMax)}
    /\ per_participant_checkbox = TRUE
    /\ data = <<>>
    /\ call = NoCall
    /\ ret = None
    /\ frame = None
    /\ NoDatasets

CallCalculateRaceModel(ecdf_a, ecdf_v, common_rts) ==
    /\ call = NoCall
    /\ call' = [op |-> "_calculate_race_model", ecdf_a |-> ecdf_a,
                ecdf_v |-> ecdf_v, common_rts |-> common_rts]
    /\ ret' = _calculate_race_model(ecdf_a, ecdf_v, common_rts)
    /\ frame' = None
    /\ UNCHANGED <<widgets, model_selector, sliders, per_participant_checkbox, data, gui>>

NextModel ==
    \/ \E ecdf_a \in ProbabilityArrays, ecdf_v \in ProbabilityArrays,
          common_rts \in TwoPointGrids :
           CallCalculateRaceModel(ecdf_a, ecdf_v, common_rts)
    \/ Return

SpecModel == InitModel /\ [][NextModel]_vars

(***************************************************************************)
(* The exclusion layer.  A DataFrame is a sequence of rows that carry      *)
(* their index label.                                                      *)
(***************************************************************************)
\* the table as pd.read_csv gives it: labels 0..n-1
DataFrame(rows) ==
    [i \in 1..Len(rows) |->
        [index |-> i - 1, participant_number |-> rows[i].participant_number,
         modality |-> rows[i].modality, reaction_time |-> rows[i].reaction_time]]

\* df.reset_index(drop=True)
reset_index(df) == [i \in 1..Len(df) |-> [df[i] EXCEPT !.index = i - 1]]

\* df.index
Index(df) == {df[i].index : i \in 1..Len(df)}

\* df.drop(labels)
drop(df, labels) == SelectSeq(df, LAMBDA r : r.index \notin labels)

\* what a text field of the dialog holds: nothing, a number, or a text that
\* is no number, for which float() raises ValueError
Empty == [text |-> ""]
Number(value) == [number |-> value]
Invalid == [invalid |-> TRUE]

\* float(text) if text else None
Float(text) == IF text = Empty THEN None ELSE text.number

\* the criteria after parsing
ParsedCriteria(rt_min, rt_max, zscore_thresh, percent_deviation) ==
    [rt_min |-> Float(rt_min), rt_max |-> Float(rt_max),
     zscore_thresh |-> Float(zscore_thresh), percent_dev |-> Float(percent_deviation)]

\* variant: the participants the previous call reported are not examined again
SelectedParticipantsMut(data_arg, selection) ==
    SelectSeq(IF selection = AllParticipants THEN Unique(data_arg) ELSE <<selection>>,
              LAMBDA p : ~(call.op = "find_trials_to_exclude" /\ p \in DOMAIN ret))

\* participants: every participant of the table, or the one the selector names
SelectedParticipants(data_arg, selection) ==
    IF selection = AllParticipants THEN Unique(data_arg) ELSE <<selection>>

\* selected_modalities, from the three checkboxes
SelectedModalities(modalities_enabled) ==
    SelectSeq(<<1, 2, 3>>, LAMBDA mod : modalities_enabled[mod])

\* modality_data[condition].index.tolist()
IndexToList(rows) == [i \in 1..Len(rows) |-> rows[i].index]

RECURSIVE IntSum(_)
IntSum(s) == IF s = <<>> THEN 0 ELSE Head(s) + IntSum(Tail(s))

\* n * (x - mean) for each reaction time x of the sample
Deviations(rts) == [i \in 1..Len(rts) |-> Len(rts) * rts[i] - IntSum(rts)]

SumOfSquares(ds) == IntSum([i \in 1..Len(ds) |-> ds[i] * ds[i]])

\* np.abs(stats.zscore(x)) > thresh for the value x of deviation n * (x - mean):
\* z^2 = d^2 * n / sum(d^2); zscore is NaN, and the test False, when all values are equal
ZScoreAbove(d, n, sum_sq, thresh) ==
    /\ sum_sq > 0
    /\ d * d * n * thresh[2] * thresh[2] > thresh[1] * thresh[1] * sum_sq

\* twice modality_data['reaction_time'].median()
TwiceMedian(sorted) ==
    IF Len(sorted) % 2 = 1 THEN 2 * sorted[(Len(sorted) + 1) \div 2]
    ELSE sorted[Len(sorted) \div 2] + sorted[Len(sorted) \div 2 + 1]

\* np.abs(rt - median_rt) / median_rt * 100 > percent_dev
DeviationAbove(rt, twice_median, percent_dev) ==
    Abs(2 * rt - twice_median) * 100 * percent_dev[2] > percent_dev[1] * twice_median

\* what one modality of one participant adds to exclusion_indices
ModalityExclusions(modality_data, rts, criteria) ==
    IF Len(modality_data) = 0 THEN <<>>
    ELSE (IF criteria.rt_min # None
          THEN IndexToList(SelectSeq(modality_data,
                  LAMBDA r : RLess(Rat(r.reaction_time, 1), criteria.rt_min)))
          ELSE <<>>)
         \o (IF criteria.rt_max # None
             THEN IndexToList(SelectSeq(modality_data,
                     LAMBDA r : RLess(criteria.rt_max, Rat(r.reaction_time, 1))))
             ELSE <<>>)
         \o (IF criteria.zscore_thresh # None /\ Len(modality_data) > 1
             THEN IndexToList(SelectSeq(modality_data,
                     LAMBDA r : ZScoreAbove(Len(rts) * r.reaction_time - IntSum(rts),
                                            Len(rts), SumOfSquares(Deviations(rts)),
                                            criteria.zscore_thresh)))
             ELSE <<>>)
         \o (IF criteria.percent_dev # None
             THEN IndexToList(SelectSeq(modality_data,
                     LAMBDA r : DeviationAbove(r.reaction_time, TwiceMedian(Sort(rts)),
                                               criteria.percent_dev)))
             ELSE <<>>)

RECURSIVE ExclusionIndices(_, _, _)
ExclusionIndices(participant_data, selected_modalities, criteria) ==
    IF selected_modalities = <<>> THEN <<>>
    ELSE ModalityExclusions(SelectSeq(participant_data,
                                      LAMBDA r : r.modality = Head(selected_modalities)),
                            ReactionTimes(participant_data, Head(selected_modalities)),
                            criteria)
         \o ExclusionIndices(participant_data, Tail(selected_modalities), criteria)

RECURSIVE SortedList(_)
SortedList(labels) ==
    IF labels = {} THEN <<>>
    ELSE LET least == CHOOSE x \in labels : \A y \in labels : x <= y
         IN  <<least>> \o SortedList(labels \ {least})

\* variant: the indices as collected, one entry per criterion matched
UniqueListMut(exclusion_indices) == exclusion_indices

\* list(set(exclusion_indices))
UniqueList(exclusion_indices) ==
    SortedList({exclusion_indices[i] : i \in 1..Len(exclusion_indices)})

\* trials_to_exclude: the participants with something to exclude, and their indices
TrialsToExclude(data_arg, participants, selected_modalities, criteria) ==
    [p \in {q \in {participants[i] : i \in 1..Len(participants)} :
                ExclusionIndices(RowsOfParticipant(data_arg, q),
                                 selected_modalities, criteria) # <<>>} |->
        UniqueList(ExclusionIndices(RowsOfParticipant(data_arg, p),
                                    selected_modalities, criteria))]

\* selection is self.participant_selector.currentText()
find_trials_to_exclude(rt_min, rt_max, zscore_thresh, percent_deviation, modalities_enabled, data_arg, selection) ==
    IF rt_min = Invalid \/ rt_max = Invalid \/ zscore_thresh = Invalid
          \/ percent_deviation = Invalid THEN <<>>
    ELSE IF SelectedModalities(modalities_enabled) = <<>> THEN <<>>
    ELSE TrialsToExclude(data_arg, SelectedParticipants(data_arg, selection),
                         SelectedModalities(modalities_enabled),
                         ParsedCriteria(rt_min, rt_max, zscore_thresh, percent_deviation))

\* all_indices of apply_exclusions: the lists of every participant, concatenated
AllIndices(trials_to_exclude) ==
    UNION {{trials_to_exclude[p][i] : i \in 1..Len(trials_to_exclude[p])} :
            p \in DOMAIN trials_to_exclude}

(***************************************************************************)
(* The handlers of the exclusion layer, on one loaded and selected         *)
(* dataset.  call, ret: the handler that ran last, the values it read and  *)
(* what it computed.                                                       *)
(***************************************************************************)
DatasetName == "dataset"

\* an entry of excluded_participants[name]: a participant number, or its str()
ExcludedEntry(p, as_str) == [participant |-> p, as_str |-> as_str]

\* data[~data['participant_number'].isin(excluded_parts)]: a str equals no number
WithoutParticipants(df, excluded_parts) ==
    SelectSeq(df, LAMBDA r : ExcludedEntry(r.participant_number, FALSE) \notin excluded_parts)

\* the excluded labels that are in data.index are dropped, then reset_index
WithoutTrials(df, excluded_labels) == reset_index(drop(df, excluded_labels \cap Index(df)))

SelectedRows(df, currentText) ==
    IF currentText = AllParticipants THEN df ELSE RowsOfParticipant(df, currentText)

FilteredData(df, excluded_parts, excluded_labels, currentText) ==
    SelectedRows(WithoutTrials(WithoutParticipants(df, excluded_parts), excluded_labels),
                 currentText)

get_filtered_data(dataset_name) ==
    IF dataset_name \notin DOMAIN datasets THEN None
    ELSE FilteredData(datasets[dataset_name].data, excluded_participants[dataset_name],
                      excluded_trials[dataset_name], participant_selector.currentText)

\* data[data['participant_number'].isin(valid)]
OfParticipants(df, valid) == SelectSeq(df, LAMBDA r : r.participant_number \in valid)

\* the pairs <<p, viol_val>> of the participants of the table
ViolationValues(df, percentile_range) ==
    {<<p, get_participant_violation_value(RowsOfParticipant(df, p), percentile_range)>> :
        p \in Participants(df)}

\* lo_val <= viol_val <= hi_val
InRange(lo_val, viol_val, hi_val) == RLeq(lo_val, viol_val) /\ RLeq(viol_val, hi_val)

ValidByViolation(values, lo_val, hi_val) ==
    {pv[1] : pv \in {qv \in values : qv[2] # None /\ InRange(lo_val, qv[2], hi_val)}}

ExcludedByViolation(values, lo_val, hi_val) ==
    {pv[1] : pv \in {qv \in values : qv[2] # None /\ ~InRange(lo_val, qv[2], hi_val)}}

\* variant: a scalar of 0 passes
IsViolatorMut(res) == res # None /\ res[1] # NaN /\ RLeq(Zero, res[1])

\* res and res[0] > 0: False for None and for NaN
IsViolator(res) == res # None /\ res[1] # NaN /\ RLess(Zero, res[1])

\* variant: every participant is evaluated on the whole table
ValidNonzeroMut(df, percentile_range, per_participant) ==
    {p \in Participants(df) :
        IsViolator(calculate_race_violation(df, percentile_range, per_participant))}

\* valid_nonzero
ValidNonzero(df, percentile_range, per_participant) ==
    {p \in Participants(df) :
        IsViolator(calculate_race_violation(RowsOfParticipant(df, p), percentile_range,
                                            per_participant))}

\* excluded_participants[name] as plot_race_model leaves it
RaceModelExcluded(df, percentile_range, lo_val, hi_val) ==
    {ExcludedEntry(p, FALSE) :
        p \in ExcludedByViolation(ViolationValues(df, percentile_range), lo_val, hi_val)}

\* update_plots, and the refresh of undo_exclusions: plot_race_model runs again
\* when the current figure is the race model
RefreshedExcluded(df, excluded_parts) ==
    IF current_figure_type = "race_model"
    THEN RaceModelExcluded(df, percentile_range_slider,
                           violation_range_slider[1], violation_range_slider[2])
    ELSE excluded_parts

\* update_participant_selector
SelectorFor(df) == [items |-> Participants(df), currentText |-> AllParticipants]

\* the first participant is a violator, has spread reaction times, or is a
\* non-violator; the others have spread reaction times
ExclusionProfiles == {<<Slow, Slow, Fast>>, <<Wide, Wide, Wide>>, <<Fast, Fast, Slow>>}

ExclusionTables ==
    {DataFrame(RowsOfProfiles([p \in 1..NumParticipants |->
                                  IF p = 1 THEN first ELSE <<Wide, Wide, Wide>>], 1)) :
        first \in ExclusionProfiles}

\* positions of the violation range slider, and of the percentile range slider
ViolationRanges == {<<Zero, Rat(100, 1)>>, <<Zero, Rat(1, 2)>>}

ExclusionPercentileRanges == {<<0, 100>>, <<0, 0>>}

\* the engine's settings as the window is constructed
EngineDefaults ==
    /\ model_selector = StandardName
    /\ SlidersAtDefault
    /\ per_participant_checkbox = TRUE
    /\ data = <<>>
    /\ call = NoCall
    /\ ret = None
    /\ frame = None
    /\ WidgetDefaults

\* load_dataset has loaded the table df, and the dataset is selected in the list
Loaded(df) ==
    /\ datasets = [name \in {DatasetName} |-> [data |-> df, original_data |-> df]]
    /\ participant_selector = SelectorFor(df)
    /\ excluded_participants = [name \in {DatasetName} |-> {}]
    /\ excluded_trials = [name \in {DatasetName} |-> {}]
    /\ violation_range_slider = <<Zero, Rat(100, 1)>>
    /\ percentile_range_slider = <<0, 100>>
    /\ exclude_nonviolators_checkbox = FALSE
    /\ current_figure_type = NoFigure
    /\ undo_exclusions_button = FALSE

InitExclusion == EngineDefaults /\ \E df \in ExclusionTables : Loaded(df)

engine == <<model_selector, sliders, per_participant_checkbox, data>>

\* call and ret keep the last operation across a change of the selection
SelectParticipant(currentText) ==
    /\ currentText \in participant_selector.items \cup {AllParticipants}
    /\ participant_selector' = [participant_selector EXCEPT !.currentText = currentText]
    /\ UNCHANGED <<widgets, engine, call, ret, frame, datasets, excluded_participants,
                   excluded_trials, violation_range_slider, percentile_range_slider,
                   exclude_nonviolators_checkbox, current_figure_type,
                   undo_exclusions_button>>

MoveViolationRange(range) ==
    /\ call = NoCall
    /\ violation_range_slider' = range
    /\ UNCHANGED <<widgets, engine, call, ret, frame, datasets, excluded_participants,
                   excluded_trials, participant_selector, percentile_range_slider,
                   exclude_nonviolators_checkbox, current_figure_type,
                   undo_exclusions_button>>

MovePercentileRange(range) ==
    /\ call = NoCall
    /\ percentile_range_slider' = range
    /\ UNCHANGED <<widgets, engine, call, ret, frame, datasets, excluded_participants,
                   excluded_trials, participant_selector, violation_range_slider,
                   exclude_nonviolators_checkbox, current_figure_type,
                   undo_exclusions_button>>

ToggleExcludeNonviolators ==
    /\ call = NoCall
    /\ exclude_nonviolators_checkbox' = ~exclude_nonviolators_checkbox
    /\ UNCHANGED <<widgets, engine, call, ret, frame, datasets, excluded_participants,
                   excluded_trials, participant_selector, violation_range_slider,
                   percentile_range_slider, current_figure_type, undo_exclusions_button>>

\* the dialog calls find_trials_to_exclude on a copy of the dataset's data
CallFindTrialsToExclude(rt_min, rt_max, zscore_thresh, percent_deviation, modalities_enabled) ==
    /\ call' = [op |-> "find_trials_to_exclude", rt_min |-> rt_min, rt_max |-> rt_max,
                zscore_thresh |-> zscore_thresh, percent_deviation |-> percent_deviation,
                modalities_enabled |-> modalities_enabled,
                data |-> datasets[DatasetName].data,
                currentText |-> participant_selector.currentText]
    /\ ret' = find_trials_to_exclude(rt_min, rt_max, zscore_thresh, percent_deviation,
                                     modalities_enabled, datasets[DatasetName].data,
                                     participant_selector.currentText)
    /\ frame' = None
    /\ UNCHANGED <<widgets, engine, gui>>

\* apply_exclusions of exclude_trials_dialog, when it finds trials to exclude
ApplyTrialExclusions(rt_min, rt_max, zscore_thresh, percent_deviation, modalities_enabled) ==
    \E all_indices \in
         {AllIndices(find_trials_to_exclude(rt_min, rt_max, zscore_thresh,
                                            percent_deviation, modalities_enabled,
                                            datasets[DatasetName].data,
                                            participant_selector.currentText))} :
      /\ call = NoCall
      /\ all_indices # {}
      /\ excluded_trials' = [excluded_trials EXCEPT ![DatasetName] = @ \cup all_indices]
      /\ datasets' =
            [datasets EXCEPT ![DatasetName].data = reset_index(drop(@, all_indices))]
      /\ undo_exclusions_button' = TRUE
      /\ excluded_participants' =
            [excluded_participants EXCEPT
                ![DatasetName] = RefreshedExcluded(datasets'[DatasetName].data, @)]
      /\ call' = [op |-> "exclude_trials_dialog.apply_exclusions",
                  data |-> datasets[DatasetName].data,
                  all_indices |-> all_indices]
      /\ ret' = None
      /\ frame' = None
      /\ UNCHANGED <<widgets, engine, participant_selector, violation_range_slider,
                     percentile_range_slider, exclude_nonviolators_checkbox,
                     current_figure_type>>

\* apply_exclusions of open_participant_selection_dialog: the manually ticked
\* participants, the existing dataset updated
ApplyParticipantExclusions(excluded) ==
    /\ call = NoCall
    /\ participant_selector.currentText = AllParticipants
    /\ excluded \subseteq Participants(datasets[DatasetName].data)
    /\ datasets' =
          [datasets EXCEPT ![DatasetName].data =
              SelectSeq(@, LAMBDA r : r.participant_number \notin excluded)]
    /\ participant_selector' = SelectorFor(datasets'[DatasetName].data)
    /\ excluded_participants' =
          [excluded_participants EXCEPT
              ![DatasetName] =
                  RefreshedExcluded(datasets'[DatasetName].data,
                                    {ExcludedEntry(p, TRUE) : p \in excluded})]
    /\ call' = [op |-> "open_participant_selection_dialog.apply_exclusions",
                excluded |-> excluded]
    /\ ret' = None
    /\ frame' = None
    /\ UNCHANGED <<widgets, engine, excluded_trials, violation_range_slider,
                   percentile_range_slider, exclude_nonviolators_checkbox,
                   current_figure_type, undo_exclusions_button>>

PlotRaceModel ==
    /\ call = NoCall
    /\ \E values \in {ViolationValues(datasets[DatasetName].data, percentile_range_slider)} :
          /\ excluded_participants' =
                [excluded_participants EXCEPT
                    ![DatasetName] =
                        {ExcludedEntry(p, FALSE) :
                            p \in ExcludedByViolation(values, violation_range_slider[1],
                                                      violation_range_slider[2])}]
          /\ call' = [op |-> "plot_race_model",
                      data |-> datasets[DatasetName].data,
                      lo_val |-> violation_range_slider[1],
                      hi_val |-> violation_range_slider[2],
                      percentile_range |-> percentile_range_slider,
                      per_participant |-> per_participant_checkbox,
                      valid |-> ValidByViolation(values, violation_range_slider[1],
                                                 violation_range_slider[2])]
          /\ ret' = calculate_race_violation(
                        OfParticipants(datasets[DatasetName].data, call'.valid),
                        percentile_range_slider, per_participant_checkbox)
    /\ current_figure_type' = "race_model"
    /\ frame' = None
    /\ UNCHANGED <<widgets, engine, datasets, excluded_trials, participant_selector,
                   violation_range_slider, percentile_range_slider,
                   exclude_nonviolators_checkbox, undo_exclusions_button>>

\* the rows plot_race_violations passes to calculate_race_violation
ViolationsInput(df, valid, nonviolators, percentile_range, per_participant) ==
    IF nonviolators
    THEN OfParticipants(df, ValidNonzero(OfParticipants(df, valid), percentile_range,
                                         per_participant))
    ELSE OfParticipants(df, valid)

PlotRaceViolations ==
    /\ call = NoCall
    /\ \E df \in {get_filtered_data(DatasetName)} :
        \E values \in {ViolationValues(df, percentile_range_slider)} :
         \E input \in {ViolationsInput(df,
                                       ValidByViolation(values, violation_range_slider[1],
                                                        violation_range_slider[2]),
                                       exclude_nonviolators_checkbox,
                                       percentile_range_slider, per_participant_checkbox)} :
          /\ call' = [op |-> "plot_race_violations",
                      data |-> df,
                      currentText |-> participant_selector.currentText,
                      lo_val |-> violation_range_slider[1],
                      hi_val |-> violation_range_slider[2],
                      percentile_range |-> percentile_range_slider,
                      per_participant |-> per_participant_checkbox,
                      nonviolators |-> exclude_nonviolators_checkbox,
                      valid |-> ValidByViolation(values, violation_range_slider[1],
                                                 violation_range_slider[2]),
                      kept |-> Participants(input)]
          /\ ret' = calculate_race_violation(input, percentile_range_slider,
                                             per_participant_checkbox)
    /\ current_figure_type' = "race_violations"
    /\ frame' = None
    /\ UNCHANGED <<widgets, engine, datasets, excluded_participants, excluded_trials,
                   participant_selector, violation_range_slider, percentile_range_slider,
                   exclude_nonviolators_checkbox, undo_exclusions_button>>

\* the data restored and the exclusions cleared, then the current plot refreshed
UndoExclusions ==
    /\ call = NoCall
    /\ undo_exclusions_button
    /\ datasets' = [datasets EXCEPT ![DatasetName].data = datasets[DatasetName].original_data]
    /\ excluded_trials' = [excluded_trials EXCEPT ![DatasetName] = {}]
    /\ excluded_participants' =
          [excluded_participants EXCEPT
              ![DatasetName] = RefreshedExcluded(datasets'[DatasetName].data, {})]
    /\ call' = [op |-> "undo_exclusions"]
    /\ ret' = None
    /\ frame' = None
    /\ UNCHANGED <<widgets, engine, participant_selector, violation_range_slider,
                   percentile_range_slider, exclude_nonviolators_checkbox,
                   current_figure_type, undo_exclusions_button>>

\* what the dialog's four text fields hold (rt_min, rt_max, zscore, percent):
\* each criterion alone, combinations whose matches overlap, and a text that
\* is no number
CriteriaTexts ==
    <<<<Empty, Empty, Empty, Empty>>,
      <<Number(Rat(MaxRT, 1)), Empty, Empty, Empty>>,
      <<Empty, Number(One), Empty, Empty>>,
      <<Empty, Empty, Number(Rat(1, 2)), Empty>>,
      <<Empty, Empty, Number(One), Empty>>,
      <<Empty, Empty, Empty, Number(Rat(25, 1))>>,
      <<Number(Rat(MaxRT, 1)), Number(One), Empty, Empty>>,
      <<Empty, Number(One), Number(Rat(1, 2)), Empty>>,
      <<Number(Rat(MaxRT, 1)), Empty, Empty, Number(Rat(25, 1))>>,
      <<Number(Rat(MaxRT, 1)), Number(One), Number(Rat(1, 2)), Number(Rat(25, 1))>>,
      <<Invalid, Number(One), Empty, Empty>>>>

\* its modality checkboxes
ModalityFlags == {<<TRUE, TRUE, TRUE>>, <<FALSE, FALSE, TRUE>>, <<FALSE, FALSE, FALSE>>}

NextExclusion ==
    \/ Return
    \/ \E currentText \in 0..NumParticipants : SelectParticipant(currentText)
    \/ \E range \in ViolationRanges : MoveViolationRange(range)
    \/ \E range \in ExclusionPercentileRanges : MovePercentileRange(range)
    \/ ToggleExcludeNonviolators
    \/ \E modalities_enabled \in {<<TRUE, TRUE, TRUE>>, <<FALSE, FALSE, TRUE>>} :
          ApplyTrialExclusions(Empty, Number(One), Empty, Empty, modalities_enabled)
    \/ \E p \in 1..NumParticipants : ApplyParticipantExclusions({p})
    \/ PlotRaceModel
    \/ PlotRaceViolations
    \/ UndoExclusions

SpecExclusion == InitExclusion /\ [][NextExclusion]_vars

\* plot_race_violations on its own, on the loaded table and on what a trial
\* exclusion leaves of it, under every setting of the sliders, the selector and
\* the 'Excl Non-Violators' checkbox
NextNonViolators ==
    \/ Return
    \/ \E currentText \in 0..NumParticipants : SelectParticipant(currentText)
    \/ \E range \in ViolationRanges : MoveViolationRange(range)
    \/ \E range \in ExclusionPercentileRanges : MovePercentileRange(range)
    \/ ToggleExcludeNonviolators
    \/ \E modalities_enabled \in {<<TRUE, TRUE, TRUE>>, <<FALSE, FALSE, TRUE>>} :
          ApplyTrialExclusions(Empty, Number(One), Empty, Empty, modalities_enabled)
    \/ PlotRaceViolations

SpecNonViolators == InitExclusion /\ [][NextNonViolators]_vars

(***************************************************************************)
(* find_trials_to_exclude on its own: SpecTrials calls it, as the dialog   *)
(* does, on the loaded table for every combination of the criteria, under  *)
(* every participant selection.                                            *)
(***************************************************************************)
\* a participant with an empty modality and a single trial in another
Sparse == <<Wide, <<MaxRT>>, <<>>>>

TrialProfiles == {<<Wide, Wide, Wide>>, <<Wide, Slow, Fast>>, <<Fast, Fast, Fast>>, Sparse}

TrialTables ==
    {DataFrame(RowsOfProfiles(ps, 1)) : ps \in [1..NumParticipants -> TrialProfiles]}

InitTrials == EngineDefaults /\ \E df \in TrialTables : Loaded(df)

NextTrials ==
    \/ \E currentText \in 0..NumParticipants : SelectParticipant(currentText)
    \/ \E texts \in DOMAIN CriteriaTexts, modalities_enabled \in ModalityFlags :
            CallFindTrialsToExclude(CriteriaTexts[texts][1], CriteriaTexts[texts][2],
                                    CriteriaTexts[texts][3], CriteriaTexts[texts][4],
                                    modalities_enabled)

SpecTrials == InitTrials /\ [][NextTrials]_vars

(***************************************************************************)
(* Properties.                                                             *)
(***************************************************************************)
KnownModels ==
    {StandardName, MillerName, CoactivationName, ParallelInteractiveName, MREName}

ViolationReturned == call.op = "calculate_race_violation"
ValueReturned == call.op = "get_participant_violation_value"
RaceModelReturned == call.op = "_calculate_race_model"

InUnitInterval(array) ==
    \A i \in 1..Len(array) : RLeq(Zero, array[i]) /\ RLeq(array[i], One)

NonDecreasing(array) ==
    \A i \in 1..(Len(array) - 1) : RLeq(array[i], array[i + 1])

\* the number of trials of a table in a modality
TrialCount(participant_data, mod) == Len(ReactionTimes(participant_data, mod))

\* C1: in both modes every element of the violation-magnitude array that
\* calculate_race_violation summarises is >= 0, and so is the returned scalar
\* whenever the percentile window is not empty.
C1_ViolationNonNegative ==
    (ViolationReturned /\ ret # None) =>
        /\ \A i \in 1..Len(frame.violations) : RLeq(Zero, frame.violations[i])
        /\ (frame.lower_idx < frame.upper_idx => RLeq(Zero, ret[1]))

\* a per-participant average over two participants with a positive scalar
C1_Witness ==
    /\ ViolationReturned
    /\ ret # None
    /\ call.per_participant
    /\ Len(frame.samples) = 2
    /\ frame.lower_idx < frame.upper_idx
    /\ RLess(Zero, ret[1])
    /\ \E i \in 1..Len(frame.violations) : frame.violations[i] = Zero

\* C2: for each of the five models and every slider setting, every point of
\* the curve _calculate_race_model returns for probability arrays lies in [0,1].
C2_PredictionInUnitInterval ==
    (RaceModelReturned /\ model_selector \in KnownModels) =>
        /\ ret # None
        /\ Len(ret) = Len(call.ecdf_a)
        /\ InUnitInterval(ret)

\* the MRE sum, unclipped, exceeds 1 at a point and is returned as 1 there
C2_Witness ==
    /\ RaceModelReturned
    /\ model_selector = MREName
    /\ \E i \in 1..Len(ret) :
          /\ RLess(One, SelectedRaceModel(MREName, call.ecdf_a, call.ecdf_v,
                                          call.common_rts)[i])
          /\ ret[i] = One

\* C3: every ECDF calculate_race_violation returns (of a pooled sample, or the
\* average of the participants' ECDFs) is non-decreasing along the grid and
\* within [0,1].
C3_EcdfMonotoneBounded ==
    (ViolationReturned /\ ret # None) =>
        \A k \in {3, 4, 5} : NonDecreasing(ret[k]) /\ InUnitInterval(ret[k])

\* an average of two participants' ECDFs that rises strictly along an ascending grid
C3_Witness ==
    /\ ViolationReturned
    /\ ret # None
    /\ call.per_participant
    /\ Len(frame.samples) = 2
    /\ \A mod \in {1, 2, 3}, k \in {1, 2} : TrialCount(frame.samples[k], mod) >= 2
    /\ RLess(ret[2][1], ret[2][2])
    /\ \E i \in 1..(Len(ret[5]) - 1) :
          RLess(Zero, ret[5][i]) /\ RLess(ret[5][i], ret[5][i + 1])

\* C4: on the same pair of probability arrays the Miller prediction is
\* pointwise >= the standard prediction.
C4_MillerAboveStandard ==
    RaceModelReturned =>
        /\ model_selector = MillerName =>
              \A i \in 1..Len(ret) :
                  RLeq(Clip(StandardRaceModel(call.ecdf_a, call.ecdf_v))[i], ret[i])
        /\ model_selector = StandardName =>
              \A i \in 1..Len(ret) :
                  RLeq(ret[i], Clip(MillerRaceModel(call.ecdf_a, call.ecdf_v))[i])

\* Miller's bound strictly above the standard prediction, both below 1
C4_Witness ==
    /\ RaceModelReturned
    /\ model_selector = MillerName
    /\ \E i \in 1..Len(ret) :
          /\ RLess(StandardRaceModel(call.ecdf_a, call.ecdf_v)[i], ret[i])
          /\ RLess(ret[i], One)

\* no participant of the table has trials in all three modalities
NoParticipantCoversAll(participant_data) ==
    \A p \in Participants(participant_data) :
        \E mod \in {1, 2, 3} :
            TrialCount(RowsOfParticipant(participant_data, p), mod) = 0

\* C5: calculate_race_violation returns None when, in pooled mode, some
\* modality has no trial in the table, and when, in per-participant mode, no
\* participant has trials in all three modalities.
C5_NoneOnMissingModality ==
    ViolationReturned =>
        /\ (~call.per_participant
            /\ \E mod \in {1, 2, 3} : TrialCount(call.participant_data, mod) = 0)
              => ret = None
        /\ (call.per_participant /\ NoParticipantCoversAll(call.participant_data))
              => ret = None

\* a participant with two Audio and two Visual trials and no Audiovisual trial,
\* under a known model, in per-participant mode
C5_Witness ==
    /\ ViolationReturned
    /\ call.per_participant
    /\ model_selector \in KnownModels
    /\ TrialCount(call.participant_data, 1) >= 2
    /\ TrialCount(call.participant_data, 2) >= 2
    /\ TrialCount(call.participant_data, 3) = 0
    /\ ret = None

\* C6 (as claimed): calculate_race_violation returns None whenever a needed
\* modality has fewer than 2 trials, in pooled mode as in per-participant
\* mode: no ECDF is ever built from a single observation.
C6_NoneBelowTwoTrials ==
    ViolationReturned =>
        /\ (~call.per_participant
            /\ \E mod \in {1, 2, 3} : TrialCount(call.participant_data, mod) < 2)
              => ret = None
        /\ ret # None =>
              \A k \in 1..Len(frame.samples), mod \in {1, 2, 3} :
                  TrialCount(frame.samples[k], mod) >= 2

\* the reaction times the grid's ends are taken from, in either mode
GridSource(participant_data, per_participant) ==
    IF per_participant THEN AllReactionTimes(participant_data)
    ELSE ReactionTimes(participant_data, 1) \o ReactionTimes(participant_data, 2)
         \o ReactionTimes(participant_data, 3)

DegenerateRange(rts) == rts # <<>> /\ SeqMin(rts) = SeqMax(rts)

\* C7 (as claimed): calculate_race_violation returns None whenever the
\* reaction times the grid is taken from have minimum = maximum, in
\* per-participant mode as in pooled mode: no returned grid has all its
\* points equal.
C7_NoneOnDegenerateRange ==
    ViolationReturned =>
        /\ DegenerateRange(GridSource(call.participant_data, call.per_participant))
              => ret = None
        /\ ret # None => ret[2][1] # ret[2][Len(ret[2])]

RECURSIVE SumOver(_, _)
SumOver(indices, array) ==
    IF indices = {} THEN Zero
    ELSE LET i == CHOOSE j \in indices : TRUE
         IN  RAdd(array[i + 1], SumOver(indices \ {i}, array))

Window(n, percentile_range) ==
    {i \in 0..(n - 1) :
        /\ n * percentile_range[1] < 100 * (i + 1)
        /\ 100 * (i + 1) <= n * percentile_range[2]}

\* C9: for a percentile range (lo, hi) the returned scalar is the arithmetic
\* mean of the violation-magnitude array over the window [floor(N*lo/100),
\* floor(N*hi/100)), N the grid length, in both modes (in pooled mode the
\* array is max(ecdf_av - race_model, 0) of the returned curves); the mean of
\* an empty window is NaN.  An index i (from 0) lies in the window exactly
\* when N*lo < 100*(i + 1) <= N*hi.
C9_ScalarIsWindowMean ==
    (ViolationReturned /\ ret # None) =>
        LET window == Window(Len(ret[2]), call.percentile_range)
        IN  /\ Len(frame.violations) = Len(ret[2])
            /\ ~call.per_participant =>
                  \A i \in 1..Len(ret[2]) :
                      frame.violations[i] = RMax(RSub(ret[5][i], ret[6][i]), Zero)
            /\ window # {} =>
                  RMul(ret[1], Rat(Cardinality(window), 1))
                      = SumOver(window, frame.violations)
            /\ window = {} => ret[1] = NaN

\* the upper half of the grid, with a positive mean, averaged over two participants
C9_Witness ==
    /\ ViolationReturned
    /\ ret # None
    /\ call.per_participant
    /\ Len(frame.samples) = 2
    /\ call.percentile_range = <<50, 100>>
    /\ RLess(Zero, ret[1])
    /\ RLess(ret[1], SeqSum(frame.violations))

\* C10 (as claimed): for an empty percentile window (lo = hi) the violation
\* value is NaN and never zero, both as the scalar of calculate_race_violation
\* and as the value get_participant_violation_value returns.
C10_EmptyWindowIsNaN ==
    (call # NoCall /\ ~RaceModelReturned
     /\ call.percentile_range[1] = call.percentile_range[2]) =>
        /\ (ViolationReturned /\ ret # None) => ret[1] = NaN
        /\ (ValueReturned /\ ret # None) => (ret = NaN /\ ret # Zero)

\* the curve number k of the returned tuple belongs to modality k - 2
SampleOf(k) == ReactionTimes(frame.samples[1], k - 2)

\* C11 (as claimed): the ECDF of a sample of n >= 2 reaction times on the
\* grid is 0 at every grid point below the sample's minimum, 1 at every grid
\* point from its maximum on, and at least 1/n from its minimum on (checked
\* where the returned curves are those of a single sample triple).
C11_EcdfStandardExtension ==
    (/\ ViolationReturned /\ ret # None /\ Len(frame.samples) = 1
     /\ \A mod \in {1, 2, 3} : TrialCount(frame.samples[1], mod) >= 2) =>
        \A k \in {3, 4, 5}, i \in 1..Len(ret[2]) :
            /\ RLess(ret[2][i], Rat(SeqMin(SampleOf(k)), 1)) => ret[k][i] = Zero
            /\ RLeq(Rat(SeqMax(SampleOf(k)), 1), ret[2][i]) => ret[k][i] = One
            /\ RLeq(Rat(SeqMin(SampleOf(k)), 1), ret[2][i]) =>
                  RLeq(Rat(1, Len(SampleOf(k))), ret[k][i])

\* the participant's rows pass the check of the per-participant loop: at
\* least 2 trials in each modality
PassesCoverage(p_data) == \A mod \in {1, 2, 3} : TrialCount(p_data, mod) >= 2

\* the table with the trials of every participant that fails the check removed
WithoutSkipped(participant_data) ==
    SelectSeq(participant_data,
              LAMBDA r : PassesCoverage(RowsOfParticipant(participant_data,
                                                          r.participant_number)))

\* C12 (as claimed): in per-participant mode the participants that fail the
\* coverage check contribute nothing: the returned grid, curves and scalar
\* are those obtained from the table with their trials removed.
C12_SkippedContributeNothing ==
    (ViolationReturned /\ call.per_participant) =>
        ret = calculate_race_violation(WithoutSkipped(call.participant_data),
                                       call.percentile_range, TRUE)

\* the curves of each sample triple that contributed (the participants that
\* were not skipped, or the pooled table) on the returned grid
OwnCurves ==
    [k \in 1..Len(frame.samples) |->
        GridCurves(ret[2], ReactionTimes(frame.samples[k], 1),
                   ReactionTimes(frame.samples[k], 2),
                   ReactionTimes(frame.samples[k], 3))]

\* C13 (as claimed): in both modes the violation magnitude is 0 at every grid
\* point where the returned ecdf_av is <= the returned race_model, and the
\* scalar is 0 if that holds over the whole (non-empty) window.
C13_ZeroWhereNotViolated ==
    (ViolationReturned /\ ret # None) =>
        /\ \A i \in 1..Len(ret[2]) :
              RLeq(ret[5][i], ret[6][i]) => frame.violations[i] = Zero
        /\ (/\ frame.lower_idx < frame.upper_idx
            /\ \A i \in (frame.lower_idx + 1)..frame.upper_idx :
                  RLeq(ret[5][i], ret[6][i]))
              => ret[1] = Zero

\* C13 (amended): in pooled mode, and in per-participant mode with a single
\* contributing participant, the violation magnitude is 0 wherever the
\* returned ecdf_av is <= the returned race_model; in per-participant mode it
\* is 0 at every grid point where each contributing participant's own ecdf_av
\* is <= that participant's own race_model; and where that holds over the
\* whole of a non-empty window the scalar is 0.
C13_ZeroWhereNoParticipantViolates ==
    (ViolationReturned /\ ret # None) =>
        \E own \in {OwnCurves} :
            \E quiet \in {{i \in 1..Len(ret[2]) :
                            \A k \in 1..Len(own) :
                                RLeq(own[k].ecdf_av[i], own[k].race_model[i])}} :
                /\ \A i \in quiet : frame.violations[i] = Zero
                /\ Len(own) = 1 =>
                      quiet = {i \in 1..Len(ret[2]) : RLeq(ret[5][i], ret[6][i])}
                /\ (/\ frame.lower_idx < frame.upper_idx
                    /\ (frame.lower_idx + 1)..frame.upper_idx \subseteq quiet)
                      => ret[1] = Zero

\* two participants and a non-empty window over which neither violates the
\* race model, one of them staying strictly below it: the scalar is 0
C13_Witness ==
    /\ ViolationReturned
    /\ ret # None
    /\ call.per_participant
    /\ Len(frame.samples) = 2
    /\ frame.lower_idx < frame.upper_idx
    /\ ret[1] = Zero
    /\ \A i \in (frame.lower_idx + 1)..frame.upper_idx, k \in {1, 2} :
          RLeq(OwnCurves[k].ecdf_av[i], OwnCurves[k].race_model[i])
    /\ \E i \in (frame.lower_idx + 1)..frame.upper_idx :
          /\ RLess(OwnCurves[1].ecdf_av[i], OwnCurves[1].race_model[i])
          /\ OwnCurves[2].ecdf_av[i] = OwnCurves[2].race_model[i]

\* the same trials, all given to participant 1, in reverse row order
Merged(participant_data) ==
    [i \in 1..Len(participant_data) |->
        [participant_data[Len(participant_data) + 1 - i]
            EXCEPT !.participant_number = 1]]

\* the same trials dealt out in turn to the participants 1..NumParticipants
Dealt(participant_data) ==
    [i \in 1..Len(participant_data) |->
        [participant_data[i] EXCEPT !.participant_number = (i % NumParticipants) + 1]]

\* C14: in pooled mode the result ignores participant identity: a table with
\* the same (modality, reaction_time) trials under another assignment of
\* participant numbers gives the identical result.
C14_PooledIgnoresIdentity ==
    (ViolationReturned /\ ~call.per_participant) =>
        /\ ret = calculate_race_violation(Merged(call.participant_data),
                                          call.percentile_range, FALSE)
        /\ ret = calculate_race_violation(Dealt(call.participant_data),
                                          call.percentile_range, FALSE)

\* a pooled result over two participants with a positive scalar, which the
\* per-participant mode does not give for the same table
C14_Witness ==
    /\ ViolationReturned
    /\ ~call.per_participant
    /\ Cardinality(Participants(call.participant_data)) = 2
    /\ ret # None
    /\ frame.lower_idx < frame.upper_idx
    /\ RLess(Zero, ret[1])
    /\ Dealt(call.participant_data) # call.participant_data
    /\ ret # calculate_race_violation(call.participant_data,
                                      call.percentile_range, TRUE)

\* C15: after undo_exclusions the dataset's data equals its original_data, its
\* excluded_participants and excluded_trials are empty, and get_filtered_data
\* with 'All Participants' selected returns the original table
C15_UndoRestoresAll ==
    call.op = "undo_exclusions" =>
        /\ datasets[DatasetName].data = datasets[DatasetName].original_data
        /\ excluded_participants[DatasetName] = {}
        /\ excluded_trials[DatasetName] = {}
        /\ FilteredData(datasets[DatasetName].data, excluded_participants[DatasetName],
                        excluded_trials[DatasetName], AllParticipants)
               = datasets[DatasetName].original_data

\* get_filtered_data as it would be with no participant exclusion persisted
FreshData ==
    FilteredData(datasets[DatasetName].data, {}, excluded_trials[DatasetName],
                 call.currentText)

\* C16: in a plot_race_violations run every participant of the dataset whose
\* violation value lies within the current slider bounds is kept by the
\* violation-value filter, whatever an earlier plot_race_model run excluded
C16_ExclusionsComputedFresh ==
    call.op = "plot_race_violations" =>
        \A pv \in ViolationValues(FreshData, percentile_range_slider) :
            (pv[2] # None /\ InRange(violation_range_slider[1], pv[2],
                                     violation_range_slider[2]))
                => pv[1] \in call.valid

FindReturned == call.op = "find_trials_to_exclude"

\* the two calls have the same criteria, modality flags and table
SameArguments(first, second) ==
    /\ first.rt_min = second.rt_min
    /\ first.rt_max = second.rt_max
    /\ first.zscore_thresh = second.zscore_thresh
    /\ first.percent_deviation = second.percent_deviation
    /\ first.modalities_enabled = second.modalities_enabled
    /\ first.data = second.data

OwnSample(df, r) == ReactionTimes(RowsOfParticipant(df, r.participant_number), r.modality)

\* the text of a criterion holds a number
Supplied(text) == text # Empty /\ text # Invalid

BelowMin(r, rt_min) == Supplied(rt_min) /\ RLess(Rat(r.reaction_time, 1), rt_min.number)

AboveMax(r, rt_max) == Supplied(rt_max) /\ RLess(rt_max.number, Rat(r.reaction_time, 1))

ZScoreOut(r, rts, zscore_thresh) ==
    /\ Supplied(zscore_thresh)
    /\ ZScoreAbove(Len(rts) * r.reaction_time - IntSum(rts), Len(rts),
                   SumOfSquares(Deviations(rts)), zscore_thresh.number)

DeviationOut(r, rts, percent_deviation) ==
    /\ Supplied(percent_deviation)
    /\ DeviationAbove(r.reaction_time, TwiceMedian(Sort(rts)), percent_deviation.number)

\* the row matches at least one of the criteria supplied to the call
Matches(r) ==
    \/ BelowMin(r, call.rt_min)
    \/ AboveMax(r, call.rt_max)
    \/ ZScoreOut(r, OwnSample(call.data, r), call.zscore_thresh)
    \/ DeviationOut(r, OwnSample(call.data, r), call.percent_deviation)

\* the labels in the returned lists
Listed == UNION {{ret[p][i] : i \in 1..Len(ret[p])} : p \in DOMAIN ret}

\* no label twice in a participant's list, none in the lists of two participants
ListedOnce ==
    /\ \A p \in DOMAIN ret : \A i, j \in 1..Len(ret[p]) : ret[p][i] = ret[p][j] => i = j
    /\ \A p, q \in DOMAIN ret :
          p # q => \A i \in 1..Len(ret[p]), j \in 1..Len(ret[q]) : ret[p][i] # ret[q][j]

AllTextsValid ==
    /\ call.rt_min # Invalid /\ call.rt_max # Invalid
    /\ call.zscore_thresh # Invalid /\ call.percent_deviation # Invalid

\* C18 (as claimed): a trial of an enabled modality is listed by
\* find_trials_to_exclude if and only if it matches a supplied criterion, no
\* other trial is listed, and each trial is listed at most once
C18_ListedIffMatches ==
    FindReturned =>
        /\ \A i \in 1..Len(call.data) :
              call.data[i].index \in Listed
                 <=> (call.modalities_enabled[call.data[i].modality]
                        /\ Matches(call.data[i]))
        /\ ListedOnce

\* C18 (amended): the same for the trials of the participants the selector
\* admits, when every text that is not empty is a number; otherwise the
\* result is empty
C18_ListedIffSelectedAndMatches ==
    FindReturned =>
        /\ AllTextsValid =>
              \A i \in 1..Len(call.data) :
                 call.data[i].index \in Listed
                    <=> (/\ call.currentText \in {AllParticipants,
                                                   call.data[i].participant_number}
                         /\ call.modalities_enabled[call.data[i].modality]
                         /\ Matches(call.data[i]))
        /\ ~AllTextsValid => ret = <<>>
        /\ ListedOnce

\* one participant selected, RT max and z-score both supplied: a listed trial
\* matches both, an enabled trial of the participant matches none and is not
\* listed, and a matching trial of another participant is not listed
C18_Witness ==
    /\ FindReturned
    /\ call.currentText # AllParticipants
    /\ call.rt_max # Empty /\ call.zscore_thresh # Empty
    /\ \E i \in 1..Len(call.data) :
          /\ call.data[i].index \in Listed
          /\ AboveMax(call.data[i], call.rt_max)
          /\ ZScoreOut(call.data[i], OwnSample(call.data, call.data[i]), call.zscore_thresh)
    /\ \E i \in 1..Len(call.data) :
          /\ call.data[i].participant_number = call.currentText
          /\ call.modalities_enabled[call.data[i].modality]
          /\ ~Matches(call.data[i])
          /\ call.data[i].index \notin Listed
    /\ \E i \in 1..Len(call.data) :
          /\ call.data[i].participant_number # call.currentText
          /\ call.modalities_enabled[call.data[i].modality]
          /\ Matches(call.data[i])
          /\ call.data[i].index \notin Listed

\* what calculate_race_violation returns for the rows of one participant of the
\* table a plot handler filtered
OwnResult(p) ==
    calculate_race_violation(RowsOfParticipant(call.data, p), call.percentile_range,
                             call.per_participant)

\* the mean violation res[0] is a number between the slider bounds
MeanWithinBounds(res) ==
    res # None /\ res[1] # NaN /\ InRange(call.lo_val, res[1], call.hi_val)

\* C19: plot_race_model and plot_race_violations keep a participant if and
\* only if the mean violation res[0] of the participant over the percentile
\* window lies within the bounds of the violation slider
C19_KeptIffMeanWithinBounds ==
    call.op \in {"plot_race_model", "plot_race_violations"} =>
        call.valid = {p \in Participants(call.data) : MeanWithinBounds(OwnResult(p))}

\* res and res[0] > 0, on the rows of the participant
ScalarPositive(p) ==
    OwnResult(p) # None /\ OwnResult(p)[1] # NaN /\ RLess(Zero, OwnResult(p)[1])

\* C20: with 'Excl Non-Violators' enabled plot_race_violations keeps, of the
\* participants that passed the violation filter, exactly those whose scalar
\* summary is a number above 0; with it disabled it keeps all of them
C20_NonViolatorsDropped ==
    call.op = "plot_race_violations" =>
        call.kept = IF call.nonviolators
                    THEN {p \in call.valid : ScalarPositive(p)}
                    ELSE call.valid

\* the filter is enabled, one participant with a positive scalar is kept and one
\* with a scalar of 0 is dropped
C20_Witness ==
    /\ call.op = "plot_race_violations"
    /\ call.nonviolators
    /\ \E p \in call.valid : p \in call.kept /\ ScalarPositive(p)
    /\ \E p \in call.valid :
          /\ p \notin call.kept
          /\ OwnResult(p) # None
          /\ OwnResult(p)[1] = Zero

(***************************************************************************)
(* Permutation testing: the checkbox and what calculate_race_violation     *)
(* returns while it is checked.                                            *)
(***************************************************************************)
\* toggle_permutation_parameters: shows or hides the options and a status
\* message; the checkbox state is all that is kept
TogglePermutationTest ==
    /\ call = NoCall
    /\ use_permutation_test_checkbox' = ~use_permutation_test_checkbox
    /\ UNCHANGED <<engine, gui, range_slider, call, ret, frame>>

NextPermutation ==
    \/ \E name \in ModelNames : SelectModel(name)
    \/ TogglePermutationTest
    \/ \E pp \in BOOLEAN : CallCalculateRaceViolation(pp)
    \/ Return

SpecPermutation == Init /\ [][NextPermutation]_vars

\* C21: with permutation testing requested, a result of
\* calculate_race_violation carries, after its six components, the one-sided
\* p-value and the significance flag
C21_PermutationYieldsPValue ==
    (ViolationReturned /\ use_permutation_test_checkbox /\ ret # None) => Len(ret) = 6 + 2

(***************************************************************************)
(* The callers of calculate_race_violation on a result of None.            *)
(***************************************************************************)
NoException == "None"

\* violations = ecdf_av - race_model
CurveDifference(result) == [i \in 1..Len(result[5]) |-> RSub(result[5][i], result[6][i])]

\* plot_single_dataset_violations(dataset_name, ax): the result is unpacked
\* into six names as it comes (per_participant at its default, True)
PlotSingleDatasetViolations ==
    /\ call = NoCall
    /\ IF DatasetName \notin DOMAIN datasets
       THEN /\ call' = [op |-> "plot_single_dataset_violations", exception |-> NoException]
            /\ ret' = None
       ELSE \E df \in {get_filtered_data(DatasetName)} :
              \E result \in {calculate_race_violation(df, percentile_range_slider, TRUE)} :
                 /\ call' = [op |-> "plot_single_dataset_violations",
                             data |-> df,
                             percentile_range |-> percentile_range_slider,
                             exception |-> IF result = None
                                           THEN "TypeError" ELSE NoException]
                 /\ ret' = IF result = None THEN None ELSE CurveDifference(result)
    /\ frame' = None
    /\ UNCHANGED <<engine, gui, widgets>>

NextCallers ==
    \/ Return
    \/ \E currentText \in 0..NumParticipants : SelectParticipant(currentText)
    \/ \E range \in ExclusionPercentileRanges : MovePercentileRange(range)
    \/ \E modalities_enabled \in {<<TRUE, TRUE, TRUE>>, <<FALSE, FALSE, TRUE>>} :
          ApplyTrialExclusions(Empty, Number(One), Empty, Empty, modalities_enabled)
    \/ PlotRaceModel
    \/ PlotRaceViolations
    \/ PlotSingleDatasetViolations

SpecCallers == InitExclusion /\ [][NextCallers]_vars

\* the exception the handler that has just run left with, if any
Raised == IF "exception" \in DOMAIN call THEN call.exception ELSE NoException

\* C22: the callers of calculate_race_violation complete without raising,
\* whatever it returns
C22_CallersCompleteOnNone ==
    call.op \in {"plot_race_model", "plot_race_violations", "plot_single_dataset_violations"}
        => Raised = NoException

\* every Audiovisual reaction time of the table is below every Audio and every
\* Visual reaction time, and there are trials of each modality
AudiovisualFastest(participant_data) ==
    /\ \A mod \in {1, 2, 3} : TrialCount(participant_data, mod) > 0
    /\ \A i, j \in 1..Len(participant_data) :
          (participant_data[i].modality = 3 /\ participant_data[j].modality \in {1, 2})
             => participant_data[i].reaction_time < participant_data[j].reaction_time

\* C23: under the Standard Race Model and the full window (0, 100), a result
\* of calculate_race_violation for a table in which every Audiovisual reaction
\* time is below every Audio and Visual one has a scalar violation above 0
C23_FasterAudiovisualViolates ==
    (/\ ViolationReturned
     /\ model_selector = StandardName
     /\ call.percentile_range = <<0, 100>>
     /\ AudiovisualFastest(call.participant_data)
     /\ ret # None)
        => RLess(Zero, ret[1])

(***************************************************************************)
(* The engine operations on a loaded dataset: SpecFrame hands each of      *)
(* them the dataset's table, before and after a trial exclusion.           *)
(***************************************************************************)
\* variant: the filtered table is stored back into the dataset
CallGetFilteredDataMut ==
    /\ call = NoCall
    /\ call' = [op |-> "get_filtered_data", dataset_name |-> DatasetName]
    /\ ret' = get_filtered_data(DatasetName)
    /\ frame' = None
    /\ datasets' = [datasets EXCEPT ![DatasetName].data = get_filtered_data(DatasetName)]
    /\ UNCHANGED <<engine, widgets, excluded_participants, excluded_trials,
                   participant_selector, violation_range_slider, percentile_range_slider,
                   exclude_nonviolators_checkbox, current_figure_type,
                   undo_exclusions_button>>

\* get_filtered_data(dataset_name), called on its own
CallGetFilteredData ==
    /\ call = NoCall
    /\ call' = [op |-> "get_filtered_data", dataset_name |-> DatasetName]
    /\ ret' = get_filtered_data(DatasetName)
    /\ frame' = None
    /\ UNCHANGED <<engine, gui, widgets>>

\* the table of the loaded dataset is the one the engine operations are given
InitFrame ==
    /\ model_selector = StandardName
    /\ SlidersAtDefault
    /\ per_participant_checkbox = TRUE
    /\ call = NoCall
    /\ ret = None
    /\ frame = None
    /\ WidgetDefaults
    /\ \E df \in ExclusionTables : Loaded(df) /\ data = df

NextFrame ==
    \/ Return
    \/ \E currentText \in 0..NumParticipants : SelectParticipant(currentText)
    \/ \E modalities_enabled \in {<<TRUE, TRUE, TRUE>>, <<FALSE, FALSE, TRUE>>} :
          ApplyTrialExclusions(Empty, Number(One), Empty, Empty, modalities_enabled)
    \/ \E pp \in BOOLEAN : CallCalculateRaceViolation(pp)
    \/ \E p \in 1..NumParticipants : CallGetParticipantViolationValue(p)
    \/ \E modalities_enabled \in {<<TRUE, TRUE, TRUE>>, <<FALSE, FALSE, TRUE>>} :
          CallFindTrialsToExclude(CriteriaTexts[3][1], CriteriaTexts[3][2],
                                  CriteriaTexts[3][3], CriteriaTexts[3][4],
                                  modalities_enabled)
    \/ CallGetFilteredData

SpecFrame == InitFrame /\ [][NextFrame]_vars

EngineOperations ==
    {"calculate_race_violation", "get_participant_violation_value",
     "find_trials_to_exclude", "get_filtered_data"}

\* C24: a step in which one of the four engine operations runs leaves the
\* table it is given, and the data and original_data of every dataset,
\* unchanged
C24_EngineLeavesTablesUnchanged ==
    [][(call'.op \in EngineOperations /\ <<call', ret'>> # <<call, ret>>)
          => data' = data /\ datasets' = datasets]_vars

\* after a trial exclusion, get_filtered_data has returned, under the
\* selection of one participant, fewer rows than the dataset keeps, and the
\* dataset keeps fewer rows than its original_data
C24_Witness ==
    /\ call.op = "get_filtered_data"
    /\ participant_selector.currentText # AllParticipants
    /\ Len(ret) < Len(datasets[DatasetName].data)
    /\ Len(datasets[DatasetName].data) < Len(datasets[DatasetName].original_data)

\* the calls made while 'Miller Standard Race Model' stays selected
InitMiller == Init /\ model_selector = MillerName

NextMiller ==
    \/ \E pp \in BOOLEAN : CallCalculateRaceViolation(pp)
    \/ Return

SpecMiller == InitMiller /\ [][NextMiller]_vars

\* the scalar the samples give on the grid and window of the call under the
\* standard model: each sample's positive part of ecdf_av - clip(ecdf_a +
\* ecdf_v - ecdf_a * ecdf_v), averaged over the samples and then over the
\* window
StandardViolations(common_rts, sample) ==
    LET ecdf_a == SubSeq(ECDF(common_rts, ReactionTimes(sample, 1)), 1, Len(common_rts))
        ecdf_v == SubSeq(ECDF(common_rts, ReactionTimes(sample, 2)), 1, Len(common_rts))
        ecdf_av == SubSeq(ECDF(common_rts, ReactionTimes(sample, 3)), 1, Len(common_rts))
        race_model == SubSeq(Clip(StandardRaceModel(ecdf_a, ecdf_v)), 1, Len(common_rts))
    IN  SubSeq(PositivePart(ecdf_av, race_model), 1, Len(common_rts))

StandardScalar ==
    LET arrays == SelectSeq([k \in 1..Len(frame.samples) |->
                                StandardViolations(ret[2], frame.samples[k])],
                            LAMBDA violations : TRUE)
    IN  Mean(Slice(MeanAxis0(arrays), frame.lower_idx, frame.upper_idx))

\* C25: the scalar calculate_race_violation returns under 'Miller Standard
\* Race Model' is at most the scalar the same table, window and mode give
\* under 'Standard Race Model' (and is NaN exactly when that one is)
C25_MillerMoreConservative ==
    (ViolationReturned /\ model_selector = MillerName /\ ret # None) =>
        \E standard \in {StandardScalar} :
            /\ (ret[1] = NaN) <=> (standard = NaN)
            /\ ret[1] # NaN => RLeq(ret[1], standard)

\* a pooled result under Miller's bound whose scalar lies strictly below the
\* scalar of the standard model
C25_Witness ==
    /\ ViolationReturned
    /\ model_selector = MillerName
    /\ ~call.per_participant
    /\ ret # None
    /\ ret[1] # NaN
    /\ RLess(ret[1], StandardScalar)

\* a per-participant result under Miller's bound, averaged over two
\* participants, whose scalar lies strictly below the standard model's
C25_WitnessPerParticipant ==
    /\ ViolationReturned
    /\ model_selector = MillerName
    /\ call.per_participant
    /\ ret # None
    /\ Len(frame.samples) = 2
    /\ ret[1] # NaN
    /\ RLess(ret[1], StandardScalar)

\* the trials of a table in row order, without their index labels
TrialsOf(df) ==
    [i \in 1..Len(df) |->
        [participant_number |-> df[i].participant_number,
         modality |-> df[i].modality, reaction_time |-> df[i].reaction_time]]

\* C26: after apply_exclusions of exclude_trials_dialog, get_filtered_data
\* with 'All Participants' selected returns the trials the dataset held
\* before, minus exactly the trials the criteria selected
C26_OnlyMatchingTrialsMissing ==
    (/\ call.op = "exclude_trials_dialog.apply_exclusions"
     /\ participant_selector.currentText = AllParticipants) =>
        TrialsOf(get_filtered_data(DatasetName)) =
            TrialsOf(drop(call.data, call.all_indices))

\* the same with no participant excluded: the rows lost are lost to the
\* trial labels alone
C26_NoParticipantExcluded ==
    (/\ call.op = "exclude_trials_dialog.apply_exclusions"
     /\ participant_selector.currentText = AllParticipants
     /\ excluded_participants[DatasetName] = {}) =>
        TrialsOf(get_filtered_data(DatasetName)) =
            TrialsOf(drop(call.data, call.all_indices))

\* the participants kept when the non-violator filter runs first, on the
\* table get_filtered_data returned, and the violation-value range filter
\* runs on what it leaves
ReverseOrderKept ==
    LET nonzero == OfParticipants(call.data,
                                  ValidNonzero(call.data, call.percentile_range,
                                               call.per_participant))
    IN  ValidByViolation(ViolationValues(nonzero, call.percentile_range),
                         call.lo_val, call.hi_val)

\* C27: with 'exclude non-violators' checked, plot_race_violations keeps the
\* participants that the two filters keep in the reverse order
C27_FilterOrderIrrelevant ==
    (call.op = "plot_race_violations" /\ call.nonviolators) =>
        call.kept = ReverseOrderKept

\* a run where the range filter drops one participant and the non-violator
\* filter drops another
C27_Witness ==
    /\ call.op = "plot_race_violations"
    /\ call.nonviolators
    /\ \E p \in Participants(call.data) : p \notin call.valid /\ ScalarPositive(p)
    /\ \E q \in call.valid : q \notin call.kept

\* the calls on the tables of a single participant
InitSingle == Init /\ Cardinality(Participants(data)) =< 1

SpecSingle == InitSingle /\ [][NextViolation]_vars

\* a table of exactly one participant with at least 2 trials in each
\* modality and two different reaction times
SingleParticipantTable(participant_data) ==
    /\ Cardinality(Participants(participant_data)) = 1
    /\ \A mod \in {1, 2, 3} : Len(ReactionTimes(participant_data, mod)) >= 2
    /\ SeqMin(AllReactionTimes(participant_data)) # SeqMax(AllReactionTimes(participant_data))

\* C28: for a table of one participant with at least 2 trials per modality
\* and a non-degenerate range, calculate_race_violation returns in either
\* mode the tuple it returns in the other mode
C28_ModesAgreeOnOneParticipant ==
    (ViolationReturned /\ SingleParticipantTable(call.participant_data)) =>
        \E other \in {calculate_race_violation(call.participant_data,
                                                call.percentile_range,
                                                ~call.per_participant)} :
            /\ (ret = None) <=> (other = None)
            /\ ret # None => ret = other

\* a per-participant result for one participant with a violation inside the
\* window, on a grid whose lowest point is an audiovisual trial
C28_Witness ==
    /\ ViolationReturned
    /\ SingleParticipantTable(call.participant_data)
    /\ call.per_participant
    /\ ret # None
    /\ ret[1] # NaN
    /\ RLess(Zero, ret[1])
    /\ RLess(ret[2][1], Rat(SeqMin(ReactionTimes(call.participant_data, 1)), 1))
    /\ RLess(ret[2][1], Rat(SeqMin(ReactionTimes(call.participant_data, 2)), 1))

(***************************************************************************)
(* RangeSlider: two QSliders over 0..100 whose values are scaled into      *)
(* [min_value, max_value].  A QSlider emits valueChanged, and with it runs *)
(* the connected handler, only when setValue changes its value.            *)
(***************************************************************************)
\* min_value + (slider_value / 100.0) * range_size
_scaled_value(slider, slider_value) ==
    RAdd(slider.min_value,
         RMul(Rat(slider_value, 100), RSub(slider.max_value, slider.min_value)))

\* int(normalized * 100) for min_value <= actual_value
_slider_value(slider, actual_value) ==
    LET range_size == RSub(slider.max_value, slider.min_value)
        offset == RSub(actual_value, slider.min_value)
    IN  (offset[1] * range_size[2] * 100) \div (offset[2] * range_size[1])

\* the handler at a value that is not above second_slider.value()
FirstSliderAccepted(slider, value) ==
    [slider EXCEPT !.first_slider = value,
                   !.first_position = _scaled_value(slider, value)]

\* on_first_slider_value_changed(value), first_slider.value() being value:
\* above the second slider the value is set back, and the handler runs
\* again at second_slider.value()
on_first_slider_value_changed(slider, value) ==
    IF value > slider.second_slider
    THEN FirstSliderAccepted(slider, slider.second_slider)
    ELSE FirstSliderAccepted(slider, value)

SecondSliderAccepted(slider, value) ==
    [slider EXCEPT !.second_slider = value,
                   !.second_position = _scaled_value(slider, value)]

on_second_slider_value_changed(slider, value) ==
    IF value < slider.first_slider
    THEN SecondSliderAccepted(slider, slider.first_slider)
    ELSE SecondSliderAccepted(slider, value)

\* first_slider.setValue(value): nothing is emitted for the current value
FirstSliderSetValue(slider, value) ==
    IF value = slider.first_slider THEN slider
    ELSE on_first_slider_value_changed(slider, value)

SecondSliderSetValue(slider, value) ==
    IF value = slider.second_slider THEN slider
    ELSE on_second_slider_value_changed(slider, value)

\* max(self.min_value, min(value, self.max_value))
Clamped(slider, value) == RMax(slider.min_value, RMin(value, slider.max_value))

setRange(slider, start, end) ==
    IF ~RLess(start, end) THEN slider
    ELSE [slider EXCEPT !.min_value = start, !.max_value = end]

setStart(slider, value) ==
    FirstSliderSetValue([slider EXCEPT !.first_position = Clamped(slider, value)],
                        _slider_value(slider, Clamped(slider, value)))

setEnd(slider, value) ==
    SecondSliderSetValue([slider EXCEPT !.second_position = Clamped(slider, value)],
                         _slider_value(slider, Clamped(slider, value)))

\* update_violation_slider_range from the padding on, min_violation and
\* max_violation being the extreme violation values it found
PaddedMin(min_violation, max_violation) ==
    RMax(RSub(min_violation, RDivInt(RSub(max_violation, min_violation), 20)), Zero)

PaddedMax(min_violation, max_violation) ==
    RAdd(max_violation, RDivInt(RSub(max_violation, min_violation), 20))

SliderRangeUpdated(slider, min_violation, max_violation) ==
    setEnd(setStart(setRange(slider, min_violation, max_violation), min_violation),
           max_violation)

\* the sample points of the calls and the values the sliders are dragged to
SliderPoints == {Zero, Rat(1, 2), One, Rat(100, 1)}

HandleValues == {0, 50, 100}

SetRange(start, end) ==
    /\ call = NoCall
    /\ range_slider' = setRange(range_slider, start, end)
    /\ UNCHANGED <<engine, gui, use_permutation_test_checkbox, call, ret, frame>>

SetStart(value) ==
    /\ call = NoCall
    /\ range_slider' = setStart(range_slider, value)
    /\ UNCHANGED <<engine, gui, use_permutation_test_checkbox, call, ret, frame>>

SetEnd(value) ==
    /\ call = NoCall
    /\ range_slider' = setEnd(range_slider, value)
    /\ UNCHANGED <<engine, gui, use_permutation_test_checkbox, call, ret, frame>>

\* the user drags a handle: the slider takes the value and emits valueChanged
MoveFirstSlider(value) ==
    /\ call = NoCall
    /\ value # range_slider.first_slider
    /\ range_slider' = on_first_slider_value_changed(range_slider, value)
    /\ UNCHANGED <<engine, gui, use_permutation_test_checkbox, call, ret, frame>>

MoveSecondSlider(value) ==
    /\ call = NoCall
    /\ value # range_slider.second_slider
    /\ range_slider' = on_second_slider_value_changed(range_slider, value)
    /\ UNCHANGED <<engine, gui, use_permutation_test_checkbox, call, ret, frame>>

UpdateViolationSliderRange(min_violation, max_violation) ==
    /\ call = NoCall
    /\ RLeq(min_violation, max_violation)
    /\ range_slider' = SliderRangeUpdated(range_slider,
                                          PaddedMin(min_violation, max_violation),
                                          PaddedMax(min_violation, max_violation))
    /\ UNCHANGED <<engine, gui, use_permutation_test_checkbox, call, ret, frame>>

NextRangeSlider ==
    \/ \E start \in SliderPoints, end \in SliderPoints : SetRange(start, end)
    \/ \E value \in SliderPoints : SetStart(value)
    \/ \E value \in SliderPoints : SetEnd(value)
    \/ \E value \in HandleValues : MoveFirstSlider(value)
    \/ \E value \in HandleValues : MoveSecondSlider(value)
    \/ \E min_violation \in SliderPoints, max_violation \in SliderPoints :
          UpdateViolationSliderRange(min_violation, max_violation)

SpecRangeSlider == InitFrame /\ [][NextRangeSlider]_vars

\* the two sliders are ordered
SliderValuesOrdered == range_slider.first_slider <= range_slider.second_slider

\* min_value <= first_position <= second_position <= max_value
PositionsOrdered ==
    /\ RLeq(range_slider.min_value, range_slider.first_position)
    /\ RLeq(range_slider.first_position, range_slider.second_position)
    /\ RLeq(range_slider.second_position, range_slider.max_value)

\* C29: between handlers the two sliders of a RangeSlider are ordered and
\* its positions are ordered within [min_value, max_value]
C29_RangeSliderOrdered == SliderValuesOrdered /\ PositionsOrdered

\* the pair handed on is ordered after update_violation_slider_range alone
C29_OrderedAfterUpdates ==
    [][(\E min_violation \in SliderPoints, max_violation \in SliderPoints :
            UpdateViolationSliderRange(min_violation, max_violation))
        => RLeq(range_slider.first_position, range_slider.second_position)']_vars

\* C30: while the dataset's data differs from its original_data or one of
\* its participants is excluded, 'Undo All Exclusions' is enabled
C30_UndoEnabledWhileExcluded ==
    (\/ datasets[DatasetName].data # datasets[DatasetName].original_data
     \/ excluded_participants[DatasetName] # {}) =>
        undo_exclusions_button

====
